---- MODULE Spec2Model ----
(***************************************************************************)
(* Model of the trading bot's signal-scoring engine                        *)
(* (src/bot/strategies.py), of the batch scanner built on it               *)
(* (src/bot/core.py) and of the position store (src/database/db_handler.py)*)
(* and of the two places that enter a position at an actual price          *)
(* (src/app.py, src/botcore.py).                                           *)
(*                                                                         *)
(* Numbers.  Prices and volumes of the bars are integers.  Every price     *)
(* level of an analysis result is an exact rational, held as an integer    *)
(* number of 1/Scale price units; RSI and volume_ratio are exact rationals *)
(* [n, d].  Where the code's floating point decides a comparison that the  *)
(* exact arithmetic leaves open (the least-squares slope of a constant     *)
(* array, two moving averages closer than the enclosure computed here) or  *)
(* where the value comes from the optional TA-Lib library, the outcome is  *)
(* drawn from an oracle record: every outcome the build can produce.       *)
(***************************************************************************)
EXTENDS Integers, Sequences, FiniteSets, TLC

VARIABLES
    TALIB_AVAILABLE,   \* strategies.py:7-12, fixed at import
    strategy,          \* TechnicalAnalysisStrategy: atr_multiplier, entry_range_pct
    df,                \* the OHLCV frame handed to analyze
    result,            \* what the last analyze call returned (None or the dict)
    frame,             \* the local variables of that call that the dict leaves out
    helper,            \* the last direct call of a method analyze uses, and its value
    series,            \* the frames that callers share, by asset
    platform,          \* what the build's arithmetic makes of each of them
    calls,             \* the analyze calls under way on the one strategy object
    config,            \* TradingBot.config: min_score, max_signals
    data_provider,     \* TradingBot.data_provider is set
    scan_pc,           \* where scan_potential_assets stands: idle, loop, done
    scan_assets,       \* popular_assets of the running scan
    scan_log,          \* what became of each asset the loop has visited
    scan_results,      \* the local list results of the scan
    scan_return,       \* what the scan returned
    signals,           \* the signals table
    asset_call,        \* the last analyze_asset call and what it returned
    stop_scheduler,    \* TradingBot.stop_scheduler
    scheduler_thread,  \* TradingBot.scheduler_thread: 0 is None, else the thread
    threads,           \* where each started _run_scheduler thread stands
    jobs,              \* the jobs registered on the schedule of the process
    set_mode_pc,       \* where the caller of set_mode stands: idle, join
    entry_positions,   \* botcore TradingBot.entry_positions: symbol -> position dict
    position_ids,      \* botcore TradingBot.position_ids: symbol -> id, 0 for None
    alert_active,      \* botcore TradingBot.alert_active
    monitors,          \* where each start_monitoring thread stands
    close_calls,       \* the close_position calls the monitoring threads made
    run_pc,            \* botcore TradingBot.run: menu, or ended by an exception
    positions,         \* the positions table, row i has id i
    trade_history,     \* the trade_history table
    last_close,        \* the last close_position call and what it returned
    selected,          \* the analysis result picked for entry (app.py:161, botcore.py:114)
    entry              \* the last position entered at an actual price, and its levels

call_vars == <<series, platform, calls>>

analysis_vars == <<df, result, frame, helper, call_vars>>

scan_vars == <<config, data_provider, scan_pc, scan_assets, scan_log,
               scan_results, scan_return, signals>>

sched_vars == <<stop_scheduler, scheduler_thread, threads, jobs, set_mode_pc>>

monitor_vars == <<entry_positions, position_ids, alert_active, monitors,
                  close_calls, run_pc>>

bot_vars == <<asset_call, sched_vars, monitor_vars>>

entry_vars == <<selected, entry>>

db_vars == <<positions, trade_history, last_close, entry_vars>>

vars == <<TALIB_AVAILABLE, strategy, df, result, frame, helper, series, platform,
         calls, selected, entry,
         config, data_provider,
          scan_pc, scan_assets, scan_log, scan_results, scan_return, signals,
          asset_call, stop_scheduler, scheduler_thread, threads, jobs, set_mode_pc,
          entry_positions, position_ids, alert_active, monitors, close_calls, run_pc,
          positions, trade_history, last_close>>

-----------------------------------------------------------------------------
(* Units *)

\* price levels are integers in units of 1/Scale: 14 for the ATR mean, 10 for
\* atr_multiplier (tenths), 1000 for entry_range_pct (thousandths)
Scale == 14 * 500

Abs(x) == IF x < 0 THEN -x ELSE x

Sgn(x) == IF x > 0 THEN 1 ELSE IF x < 0 THEN -1 ELSE 0

Max2(a, b) == IF a >= b THEN a ELSE b

\* Python's None, and an optional value: <<>> is None, <<v>> is v
None == [tag |-> "None"]

Null == <<>>

Some(v) == <<v>>

-----------------------------------------------------------------------------
(* pandas helpers *)

\* df[col] as a sequence
Col(d, col) == [i \in 1..Len(d) |-> d[i][col]]

\* Series.tail(n)
tail(s, n) == IF Len(s) <= n THEN s ELSE SubSeq(s, Len(s) - n + 1, Len(s))

\* Series.iloc[-k]
iloc(s, k) == s[Len(s) + 1 - k]

RECURSIVE SumSeq(_)
SumSeq(s) == IF Len(s) = 0 THEN 0 ELSE s[1] + SumSeq(Tail(s))

IsConstant(s) == \A i \in 1..Len(s) : s[i] = s[1]

-----------------------------------------------------------------------------
(* Program constants *)

MinBars == 50

Lookback == 20

MinSwingBars == 5

EmaMinBars == 22

EmaFast == 13

EmaSlow == 21

AtrPeriod == 14

RsiPeriod == 14

VolPeriod == 20

PatternPeriod == 20

HarmonicPeriod == 50

-----------------------------------------------------------------------------
(* Oracle: the outcomes the source does not fix *)

\* signs and relative sizes of a rounding residue: np.polyfit solves the
\* least-squares system in floating point, so the slope of a constant array
\* is 0 or a residue of either sign; two residues may differ by any factor
Residues == {-2, -1, 0, 1, 2}

\* values TA-Lib may return for RSI (a percentage) and for 14*ATR
TalibRsiValues == {20, 30, 50, 80}

TalibAtrValues == {0, 28}

NoOracle == [h |-> 0, l |-> 0, c |-> 0, ema |-> FALSE, rsi |-> 50, atr |-> 0]

-----------------------------------------------------------------------------
(* Structure detector *)

identify_hh_hl_lh_ll(d) ==
    LET highs == tail(Col(d, "high"), Lookback)
        lows == tail(Col(d, "low"), Lookback)
        enough == Len(highs) >= MinSwingBars
    IN  [hh |-> enough /\ iloc(highs, 1) > iloc(highs, 2) /\ iloc(highs, 2) > iloc(highs, 3),
         hl |-> enough /\ iloc(lows, 1) > iloc(lows, 2) /\ iloc(lows, 2) > iloc(lows, 3),
         lh |-> enough /\ iloc(highs, 1) < iloc(highs, 2) /\ iloc(highs, 2) < iloc(highs, 3),
         ll |-> enough /\ iloc(lows, 1) < iloc(lows, 2) /\ iloc(lows, 2) < iloc(lows, 3)]

-----------------------------------------------------------------------------
(* EMA 13 / EMA 21 *)

\* fixed-point units of the enclosures below
NumUnit == 10 * 100

DenUnit == 1000 * 100

CeilDiv(a, b) == (a + b - 1) \div b

\* one step of Series.ewm(span).mean() (adjust=True): the weighted sum and the
\* sum of weights both decay by (span-1)/(span+1), then take the new value
\* with weight 1.  [nlo, nhi] encloses the weighted sum in 1/NumUnit, [dlo, dhi]
\* the sum of weights in 1/DenUnit.
EwmStep(acc, x, span) ==
    [nlo |-> (acc.nlo * (span - 1)) \div (span + 1) + x * NumUnit,
     nhi |-> CeilDiv(acc.nhi * (span - 1), span + 1) + x * NumUnit,
     dlo |-> (acc.dlo * (span - 1)) \div (span + 1) + DenUnit,
     dhi |-> CeilDiv(acc.dhi * (span - 1), span + 1) + DenUnit]

RECURSIVE EwmFrom(_, _, _, _)
EwmFrom(s, span, i, acc) ==
    IF i > Len(s) THEN acc
    ELSE \* testing next evaluates it before the next step is taken
         LET next == EwmStep(acc, s[i], span)
         IN  IF next.dlo > 0 THEN EwmFrom(s, span, i + 1, next) ELSE next

\* floor(n * 100000 / d), in three steps that stay inside 32 bits
MilliQuot(n, d) ==
    LET r1 == (n % d) * 1000
        r2 == (r1 % d) * 100
    IN  (n \div d) * 100000 + (r1 \div d) * 100 + (r2 \div d)

\* the last value of s.ewm(span=span).mean(), enclosed in thousandths
ewm_mean_last(s, span) ==
    LET acc == EwmFrom(s, span, 2,
                       [nlo |-> s[1] * NumUnit, nhi |-> s[1] * NumUnit,
                        dlo |-> DenUnit, dhi |-> DenUnit])
    IN  [lo |-> MilliQuot(acc.nlo, acc.dhi), hi |-> MilliQuot(acc.nhi, acc.dlo) + 1]

\* ema_13.iloc[-1] > ema_21.iloc[-1]: "yes", "no", or "open" when the
\* enclosures overlap.  pandas leaves the mean of a constant series exactly
\* constant, so the two means of a constant series are equal.
EmaFastAbove(closes) ==
    LET f == ewm_mean_last(closes, EmaFast)
        w == ewm_mean_last(closes, EmaSlow)
    IN  IF IsConstant(closes) THEN "no"
        ELSE IF f.lo > w.hi THEN "yes"
        ELSE IF f.hi <= w.lo THEN "no"
        ELSE "open"

EmaOpen(d) ==
    TALIB_AVAILABLE \/ EmaFastAbove(Col(d, "close")) = "open"

\* slip: equal averages taken for a bullish cross
analyze_ema_cross_tie_bullish(d, o) ==
    IF Len(d) < EmaMinBars THEN [ema_trend |-> "NEUTRAL", ema_score |-> 0]
    ELSE LET closes == Col(d, "close")
             above == IF TALIB_AVAILABLE THEN "open" ELSE EmaFastAbove(closes)
             bullish == IF IsConstant(closes) /\ ~TALIB_AVAILABLE THEN TRUE
                        ELSE IF above = "open" THEN o.ema ELSE above = "yes"
         IN  [ema_trend |-> IF bullish THEN "BULLISH" ELSE "BEARISH",
              ema_score |-> IF bullish THEN 1 ELSE -1]

\* slip: the averages compared on a series too short for them
analyze_ema_cross_any_length(d, o) ==
    LET above == IF TALIB_AVAILABLE THEN "open" ELSE EmaFastAbove(Col(d, "close"))
        bullish == IF above = "open" THEN o.ema ELSE above = "yes"
    IN  [ema_trend |-> IF bullish THEN "BULLISH" ELSE "BEARISH",
         ema_score |-> IF bullish THEN 1 ELSE -1]

analyze_ema_cross(d, o) ==
    IF Len(d) < EmaMinBars THEN [ema_trend |-> "NEUTRAL", ema_score |-> 0]
    ELSE LET above == IF TALIB_AVAILABLE THEN "open" ELSE EmaFastAbove(Col(d, "close"))
             bullish == IF above = "open" THEN o.ema ELSE above = "yes"
             ema_trend == IF bullish THEN "BULLISH" ELSE "BEARISH"
         IN  [ema_trend |-> ema_trend,
              ema_score |-> IF ema_trend = "BULLISH" THEN 1 ELSE -1]

-----------------------------------------------------------------------------
(* ATR *)

\* the true range of bar i: the previous close of the first bar is NaN, which
\* the row maximum skips
TrueRange(d, i) ==
    IF i = 1 THEN d[i].high - d[i].low
    ELSE Max2(d[i].high - d[i].low,
              Max2(Abs(d[i].high - d[i - 1].close), Abs(d[i].low - d[i - 1].close)))

\* slip: a series shorter than the period averaged over the bars it has
calculate_atr_of_short_series(d, o) ==
    LET n == IF Len(d) < AtrPeriod THEN Len(d) ELSE AtrPeriod
    IN  IF TALIB_AVAILABLE /\ Len(d) >= AtrPeriod THEN o.atr * (Scale \div AtrPeriod)
        ELSE SumSeq([k \in 1..n |-> TrueRange(d, Len(d) - n + k)])
                 * (Scale \div AtrPeriod)

\* calculate_atr, in units of 1/Scale
calculate_atr(d, o) ==
    IF Len(d) < AtrPeriod THEN 0
    ELSE IF TALIB_AVAILABLE THEN o.atr * (Scale \div AtrPeriod)
    ELSE SumSeq([k \in 1..AtrPeriod |-> TrueRange(d, Len(d) - AtrPeriod + k)])
             * (Scale \div AtrPeriod)

-----------------------------------------------------------------------------
(* RSI and volume ratio *)

\* close.diff(): NaN for the first bar, which where(..., 0) turns into 0
Diff(closes, i) == IF i = 1 THEN 0 ELSE closes[i] - closes[i - 1]

\* current_rsi of analyze, as the rational n/d
\* slip: the ratio of the averages taken without the test of the loss
current_rsi_unguarded(d, o) ==
    IF TALIB_AVAILABLE THEN [n |-> o.rsi, d |-> 1]
    ELSE LET closes == Col(d, "close")
             window == [k \in 1..RsiPeriod |-> Diff(closes, Len(d) - RsiPeriod + k)]
             gain == SumSeq([k \in 1..RsiPeriod |-> IF window[k] > 0 THEN window[k] ELSE 0])
             loss == SumSeq([k \in 1..RsiPeriod |-> IF window[k] < 0 THEN -window[k] ELSE 0])
         IN  [n |-> 100 * gain, d |-> gain + loss]

current_rsi(d, o) ==
    IF TALIB_AVAILABLE THEN [n |-> o.rsi, d |-> 1]
    ELSE LET closes == Col(d, "close")
             window == [k \in 1..RsiPeriod |-> Diff(closes, Len(d) - RsiPeriod + k)]
             gain == SumSeq([k \in 1..RsiPeriod |-> IF window[k] > 0 THEN window[k] ELSE 0])
             loss == SumSeq([k \in 1..RsiPeriod |-> IF window[k] < 0 THEN -window[k] ELSE 0])
         IN  IF loss # 0 THEN [n |-> 100 * gain, d |-> gain + loss]
             ELSE [n |-> 50, d |-> 1]

\* volume_ratio of analyze, as the rational n/d
volume_ratio(d) ==
    LET volumes == Col(d, "volume")
        vol_sum == SumSeq(tail(volumes, VolPeriod))
    IN  IF vol_sum > 0 THEN [n |-> iloc(volumes, 1) * VolPeriod, d |-> vol_sum]
        ELSE [n |-> 1, d |-> 1]

-----------------------------------------------------------------------------
(* Pattern detectors *)

\* numerator of the least-squares slope of y over x = 0..Len(y)-1:
\* slope = 6 * SlopeNum(y) / (L * (L*L - 1))
SlopeNum(y) ==
    SumSeq([i \in 1..Len(y) |-> (2 * (i - 1) - (Len(y) - 1)) * y[i]])

\* np.polyfit(range(len(y)), y, 1)[0]: the exact slope, and the rounding
\* residue res that stands for it when the exact slope is 0
polyfit(y, res) ==
    LET num == SlopeNum(y)
    IN  [n |-> num, e |-> IF num = 0 THEN res ELSE 0, len |-> Len(y)]

SlopeSign(s) == IF s.n # 0 THEN Sgn(s.n) ELSE Sgn(s.e)

\* abs(a) < abs(b) * 1.5 (a and b slopes of arrays of one length)
AbsBelow15(a, b) ==
    IF a.n # 0 \/ b.n # 0 THEN 2 * Abs(a.n) < 3 * Abs(b.n)
    ELSE 2 * Abs(a.e) < 3 * Abs(b.e)

\* a > b * 1.5 for a > 0 and b > 0
Above15(a, b) ==
    IF a.n # 0 \/ b.n # 0 THEN 2 * a.n > 3 * b.n
    ELSE 2 * a.e > 3 * b.e

\* abs(a) > abs(b) * 1.5
AbsAbove15(a, b) ==
    IF a.n # 0 \/ b.n # 0 THEN 2 * Abs(a.n) > 3 * Abs(b.n)
    ELSE 2 * Abs(a.e) > 3 * Abs(b.e)

\* abs(s) < 0.001
AbsBelowMilli(s) ==
    s.n = 0 \/ 6000 * Abs(s.n) < s.len * (s.len * s.len - 1)

\* Len(y)^2 times the variance of y (np.std squared)
Var(y) ==
    Len(y) * SumSeq([i \in 1..Len(y) |-> y[i] * y[i]]) - SumSeq(y) * SumSeq(y)

\* the tightness test with a factor above one: np.std(y) < np.std(y) * 1.7
StdBelowOwn17(y) == 100 * Var(y) < 289 * Var(y)

\* np.std(y) < np.std(y) * 0.7, on the squares
StdBelowOwn07(y) == 100 * Var(y) < 49 * Var(y)

\* slip undone: the detection stored under the declared key
detect_triangle_patterns_declared_key(d, o) ==
    LET patterns == [symmetrical_triangle |-> FALSE,
                     ascending_triangle |-> FALSE,
                     descending_triangle |-> FALSE,
                     broadening_ascending |-> FALSE,
                     broadening_descending |-> FALSE]
        highs == tail(Col(d, "high"), PatternPeriod)
        lows == tail(Col(d, "low"), PatternPeriod)
        high_slope == polyfit(highs, o.h)
        low_slope == polyfit(lows, o.l)
        hs == SlopeSign(high_slope)
        ls == SlopeSign(low_slope)
        tested == [patterns EXCEPT
                     !.symmetrical_triangle =
                         hs # 0 /\ ls # 0 /\ hs < 0 /\ ls > 0
                         /\ AbsBelow15(high_slope, low_slope),
                     !.ascending_triangle = StdBelowOwn07(highs) /\ ls > 0,
                     !.descending_triangle = StdBelowOwn07(lows) /\ hs < 0,
                     !.broadening_ascending = hs > 0 /\ ls < 0]
    IN  IF Len(d) < PatternPeriod * 2 THEN patterns
        ELSE IF ~(hs > 0 /\ ls < 0) /\ hs < 0 /\ ls > 0
             THEN [tested EXCEPT !.broadening_descending = TRUE]
             ELSE tested

detect_triangle_patterns(d, o) ==
    LET patterns == [symmetrical_triangle |-> FALSE,
                     ascending_triangle |-> FALSE,
                     descending_triangle |-> FALSE,
                     broadening_ascending |-> FALSE,
                     broadening_descending |-> FALSE]
        highs == tail(Col(d, "high"), PatternPeriod)
        lows == tail(Col(d, "low"), PatternPeriod)
        high_slope == polyfit(highs, o.h)
        low_slope == polyfit(lows, o.l)
        hs == SlopeSign(high_slope)
        ls == SlopeSign(low_slope)
        tested == [patterns EXCEPT
                     !.symmetrical_triangle =
                         hs # 0 /\ ls # 0 /\ hs < 0 /\ ls > 0
                         /\ AbsBelow15(high_slope, low_slope),
                     !.ascending_triangle = StdBelowOwn07(highs) /\ ls > 0,
                     !.descending_triangle = StdBelowOwn07(lows) /\ hs < 0,
                     !.broadening_ascending = hs > 0 /\ ls < 0]
    IN  IF Len(d) < PatternPeriod * 2 THEN patterns
        ELSE IF ~(hs > 0 /\ ls < 0) /\ hs < 0 /\ ls > 0
             THEN tested @@ [k \in {"broadending_descending"} |-> TRUE]
             ELSE tested

detect_channel_wedge_patterns(d, o) ==
    LET patterns == [uptrend_channel |-> FALSE,
                     downtrend_channel |-> FALSE,
                     ranging_channel |-> FALSE,
                     rising_wedge |-> FALSE,
                     falling_wedge |-> FALSE]
        high_slope == polyfit(tail(Col(d, "high"), PatternPeriod), o.h)
        low_slope == polyfit(tail(Col(d, "low"), PatternPeriod), o.l)
        close_slope == polyfit(tail(Col(d, "close"), PatternPeriod), o.c)
        hs == SlopeSign(high_slope)
        ls == SlopeSign(low_slope)
        cs == SlopeSign(close_slope)
    IN  IF Len(d) < PatternPeriod * 2 THEN patterns
        ELSE [uptrend_channel |-> hs > 0 /\ ls > 0 /\ cs > 0,
              downtrend_channel |-> hs < 0 /\ ls < 0 /\ cs < 0,
              ranging_channel |-> AbsBelowMilli(high_slope) /\ AbsBelowMilli(low_slope),
              rising_wedge |-> hs > 0 /\ ls > 0 /\ Above15(high_slope, low_slope),
              falling_wedge |-> hs < 0 /\ ls < 0 /\ AbsAbove15(low_slope, high_slope)]

\* slip: the buckets tested one by one with their upper limits only
detect_harmonic_patterns_upper_limits_only(d) ==
    LET patterns == [gartley |-> FALSE, bat |-> FALSE, butterfly |-> FALSE,
                     crab |-> FALSE, shark |-> FALSE]
        closes == tail(Col(d, "close"), HarmonicPeriod)
        first == closes[1]
        change == Abs(iloc(closes, 1) - first)
        Below(pct) == first # 0 /\ 100 * change < pct * Abs(first)
    IN  IF Len(d) < HarmonicPeriod THEN patterns
        ELSE [gartley |-> Below(5), bat |-> Below(10), butterfly |-> Below(15),
              crab |-> Below(20), shark |-> ~Below(20)]

\* slip: the harmonic detector guarded as the other two are
detect_harmonic_patterns_twice_period(d) ==
    LET patterns == [gartley |-> FALSE, bat |-> FALSE, butterfly |-> FALSE,
                     crab |-> FALSE, shark |-> FALSE]
        closes == tail(Col(d, "close"), HarmonicPeriod)
        first == closes[1]
        change == Abs(iloc(closes, 1) - first)
        Below(pct) == first # 0 /\ 100 * change < pct * Abs(first)
    IN  IF Len(d) < HarmonicPeriod * 2 THEN patterns
        ELSE IF Below(5) THEN [patterns EXCEPT !.gartley = TRUE]
        ELSE IF Below(10) THEN [patterns EXCEPT !.bat = TRUE]
        ELSE IF Below(15) THEN [patterns EXCEPT !.butterfly = TRUE]
        ELSE IF Below(20) THEN [patterns EXCEPT !.crab = TRUE]
        ELSE [patterns EXCEPT !.shark = TRUE]

detect_harmonic_patterns(d) ==
    LET patterns == [gartley |-> FALSE, bat |-> FALSE, butterfly |-> FALSE,
                     crab |-> FALSE, shark |-> FALSE]
        closes == tail(Col(d, "close"), HarmonicPeriod)
        first == closes[1]
        change == Abs(iloc(closes, 1) - first)
        \* abs(price_change) < pct/100; a division by 0 gives inf or nan,
        \* which is below nothing
        Below(pct) == first # 0 /\ 100 * change < pct * Abs(first)
    IN  IF Len(d) < HarmonicPeriod THEN patterns
        ELSE IF Below(5) THEN [patterns EXCEPT !.gartley = TRUE]
        ELSE IF Below(10) THEN [patterns EXCEPT !.bat = TRUE]
        ELSE IF Below(15) THEN [patterns EXCEPT !.butterfly = TRUE]
        ELSE IF Below(20) THEN [patterns EXCEPT !.crab = TRUE]
        ELSE [patterns EXCEPT !.shark = TRUE]

-----------------------------------------------------------------------------
(* Scorer and level calculator *)

\* the keys of {**triangle, **channel_wedge, **harmonic}, in dict order
PatternKeys ==
    <<"symmetrical_triangle", "ascending_triangle", "descending_triangle",
      "broadening_ascending", "broadening_descending", "broadending_descending",
      "uptrend_channel", "downtrend_channel", "ranging_channel", "rising_wedge",
      "falling_wedge", "gartley", "bat", "butterfly", "crab", "shark">>

\* slip: the EMA score assigned to trend_score, not added
trend_score_of_ema_assigned(p, ema) ==
    IF ema.ema_trend = "BULLISH" THEN ema.ema_score ELSE ema.ema_score

\* slip: each of the four flags counted on its own
trend_score_of_each_flag(p, ema) ==
    (IF p.hh THEN 2 ELSE 0) + (IF p.hl THEN 2 ELSE 0)
    - (IF p.lh THEN 2 ELSE 0) - (IF p.ll THEN 2 ELSE 0)
    + ema.ema_score

trend_score_of(p, ema) ==
    (IF p.hh \/ p.hl THEN 2 ELSE 0)
    - (IF p.lh \/ p.ll THEN 2 ELSE 0)
    + (IF ema.ema_trend = "BULLISH" THEN ema.ema_score ELSE ema.ema_score)

pattern_score_of(tri, chan, harm) ==
    (IF tri.ascending_triangle THEN 3 ELSE 0)
    - (IF tri.descending_triangle THEN 3 ELSE 0)
    + (IF tri.symmetrical_triangle THEN 1 ELSE 0)
    + (IF chan.uptrend_channel THEN 2 ELSE 0)
    - (IF chan.downtrend_channel THEN 2 ELSE 0)
    + (IF chan.falling_wedge THEN 2 ELSE 0)
    - (IF chan.rising_wedge THEN 2 ELSE 0)
    + Cardinality({k \in DOMAIN harm : harm[k]})

rsi_score_of(rsi) ==
    IF 30 * rsi.d < rsi.n /\ rsi.n < 70 * rsi.d THEN 1
    ELSE IF rsi.n < 30 * rsi.d THEN 2
    ELSE IF rsi.n > 70 * rsi.d THEN -2
    ELSE 0

volume_score_of(ratio) ==
    IF 10 * ratio.n > 12 * ratio.d THEN 1
    ELSE IF 10 * ratio.n > 8 * ratio.d THEN 0
    ELSE -1

\* slip: the pattern enhancement left out of the total
total_score_without_patterns(trend_score, rsi_score, volume_score, pattern_score) ==
    trend_score + rsi_score + volume_score

total_score(trend_score, rsi_score, volume_score, pattern_score) ==
    trend_score + rsi_score + volume_score + pattern_score

\* slip: a zero score taken for a LONG
action_of_zero_long(score) ==
    IF score >= 0 THEN "LONG" ELSE "SHORT"

action_of(score) ==
    IF score > 0 THEN "LONG" ELSE IF score < 0 THEN "SHORT" ELSE "NEUTRAL"

\* atr * self.atr_multiplier * n
AtrSteps(atr, n) == ((atr * strategy.atr_multiplier) \div 10) * n

\* slip: the LONG stop placed above the entry
levels_of_long_stop_above(action, current_close, atr) ==
    LET ideal_entry == current_close * Scale
        entry_low == current_close * (Scale \div 1000) * (1000 - strategy.entry_range_pct)
        entry_high == current_close * (Scale \div 1000) * (1000 + strategy.entry_range_pct)
        up == [ideal_entry |-> Some(ideal_entry),
               entry_low |-> Some(entry_low), entry_high |-> Some(entry_high),
               tp1 |-> Some(ideal_entry + AtrSteps(atr, 1)),
               tp2 |-> Some(ideal_entry + AtrSteps(atr, 2)),
               tp3 |-> Some(ideal_entry + AtrSteps(atr, 3)),
               sl |-> Some(ideal_entry + AtrSteps(atr, 1))]
    IN  IF action = "LONG" THEN up
        ELSE IF action = "SHORT" THEN
            [up EXCEPT !.tp1 = Some(ideal_entry - AtrSteps(atr, 1)),
                       !.tp2 = Some(ideal_entry - AtrSteps(atr, 2)),
                       !.tp3 = Some(ideal_entry - AtrSteps(atr, 3))]
        ELSE
            [ideal_entry |-> Null, entry_low |-> Null, entry_high |-> Null,
             tp1 |-> Null, tp2 |-> Null, tp3 |-> Null, sl |-> Null]

\* slip: the SHORT targets computed with the LONG signs
levels_of_short_as_long(action, current_close, atr) ==
    LET ideal_entry == current_close * Scale
        entry_low == current_close * (Scale \div 1000) * (1000 - strategy.entry_range_pct)
        entry_high == current_close * (Scale \div 1000) * (1000 + strategy.entry_range_pct)
    IN  IF action \in {"LONG", "SHORT"} THEN
            [ideal_entry |-> Some(ideal_entry),
             entry_low |-> Some(entry_low), entry_high |-> Some(entry_high),
             tp1 |-> Some(ideal_entry + AtrSteps(atr, 1)),
             tp2 |-> Some(ideal_entry + AtrSteps(atr, 2)),
             tp3 |-> Some(ideal_entry + AtrSteps(atr, 3)),
             sl |-> Some(ideal_entry - AtrSteps(atr, 1))]
        ELSE
            [ideal_entry |-> Null, entry_low |-> Null, entry_high |-> Null,
             tp1 |-> Null, tp2 |-> Null, tp3 |-> Null, sl |-> Null]

\* slip: the entry price kept when there is no trade to enter
levels_of_neutral_keeps_entry(action, current_close, atr) ==
    LET ideal_entry == current_close * Scale
        entry_low == current_close * (Scale \div 1000) * (1000 - strategy.entry_range_pct)
        entry_high == current_close * (Scale \div 1000) * (1000 + strategy.entry_range_pct)
        sign == IF action = "SHORT" THEN -1 ELSE 1
    IN  [ideal_entry |-> Some(ideal_entry),
         entry_low |-> IF action = "NEUTRAL" THEN Null ELSE Some(entry_low),
         entry_high |-> IF action = "NEUTRAL" THEN Null ELSE Some(entry_high),
         tp1 |-> IF action = "NEUTRAL" THEN Null
                 ELSE Some(ideal_entry + sign * AtrSteps(atr, 1)),
         tp2 |-> IF action = "NEUTRAL" THEN Null
                 ELSE Some(ideal_entry + sign * AtrSteps(atr, 2)),
         tp3 |-> IF action = "NEUTRAL" THEN Null
                 ELSE Some(ideal_entry + sign * AtrSteps(atr, 3)),
         sl |-> IF action = "NEUTRAL" THEN Null
                ELSE Some(ideal_entry - sign * AtrSteps(atr, 1))]

\* the entry levels of analyze: all seven, or all None
levels_of(action, current_close, atr) ==
    LET ideal_entry == current_close * Scale
        entry_low == current_close * (Scale \div 1000) * (1000 - strategy.entry_range_pct)
        entry_high == current_close * (Scale \div 1000) * (1000 + strategy.entry_range_pct)
    IN  IF action = "LONG" THEN
            [ideal_entry |-> Some(ideal_entry),
             entry_low |-> Some(entry_low), entry_high |-> Some(entry_high),
             tp1 |-> Some(ideal_entry + AtrSteps(atr, 1)),
             tp2 |-> Some(ideal_entry + AtrSteps(atr, 2)),
             tp3 |-> Some(ideal_entry + AtrSteps(atr, 3)),
             sl |-> Some(ideal_entry - AtrSteps(atr, 1))]
        ELSE IF action = "SHORT" THEN
            [ideal_entry |-> Some(ideal_entry),
             entry_low |-> Some(entry_low), entry_high |-> Some(entry_high),
             tp1 |-> Some(ideal_entry - AtrSteps(atr, 1)),
             tp2 |-> Some(ideal_entry - AtrSteps(atr, 2)),
             tp3 |-> Some(ideal_entry - AtrSteps(atr, 3)),
             sl |-> Some(ideal_entry + AtrSteps(atr, 1))]
        ELSE
            [ideal_entry |-> Null, entry_low |-> Null, entry_high |-> Null,
             tp1 |-> Null, tp2 |-> Null, tp3 |-> Null, sl |-> Null]

\* the local variables of one analyze call on a frame of at least MinBars bars
analyze_locals(d, o) ==
    LET current_close == iloc(Col(d, "close"), 1)
        rsi == current_rsi(d, o)
        atr == calculate_atr(d, o)
        swings == identify_hh_hl_lh_ll(d)
        ema == analyze_ema_cross(d, o)
        ratio == volume_ratio(d)
        triangle_patterns == detect_triangle_patterns(d, o)
        channel_wedge_patterns == detect_channel_wedge_patterns(d, o)
        harmonic_patterns == detect_harmonic_patterns(d)
        trend_score == trend_score_of(swings, ema)
        pattern_score ==
            pattern_score_of(triangle_patterns, channel_wedge_patterns, harmonic_patterns)
        rsi_score == rsi_score_of(rsi)
        volume_score == volume_score_of(ratio)
        score == total_score(trend_score, rsi_score, volume_score, pattern_score)
        action == action_of(score)
    IN  [current_close |-> current_close, current_rsi |-> rsi, atr |-> atr,
         swings |-> swings, ema |-> ema, volume_ratio |-> ratio,
         all_patterns |->
             triangle_patterns @@ channel_wedge_patterns @@ harmonic_patterns,
         trend_score |-> trend_score, pattern_score |-> pattern_score,
         rsi_score |-> rsi_score, volume_score |-> volume_score,
         score |-> score, action |-> action,
         levels |-> levels_of(action, current_close, atr)]

\* the dict analyze returns, from its locals
result_of(loc) ==
    [action |-> loc.action,
     ideal_entry |-> loc.levels.ideal_entry,
     entry_low |-> loc.levels.entry_low,
     entry_high |-> loc.levels.entry_high,
     tp1 |-> loc.levels.tp1,
     tp2 |-> loc.levels.tp2,
     tp3 |-> loc.levels.tp3,
     sl |-> loc.levels.sl,
     current_price |-> loc.current_close * Scale,
     rsi |-> loc.current_rsi,
     trend |-> IF loc.trend_score > 0 THEN "BULLISH"
               ELSE IF loc.trend_score < 0 THEN "BEARISH" ELSE "NEUTRAL",
     volume_ratio |-> loc.volume_ratio,
     score |-> loc.score,
     atr |-> loc.atr,
     hh |-> loc.swings.hh, hl |-> loc.swings.hl,
     lh |-> loc.swings.lh, ll |-> loc.swings.ll,
     ema_trend |-> loc.ema.ema_trend,
     ema_score |-> loc.ema.ema_score,
     pattern_score |-> loc.pattern_score,
     detected_patterns |->
         SelectSeq(PatternKeys,
                   LAMBDA k : k \in DOMAIN loc.all_patterns /\ loc.all_patterns[k]),
     pattern_details |-> loc.all_patterns]

\* the partial scores of the call, which the dict does not carry
frame_of(loc) ==
    [trend_score |-> loc.trend_score, rsi_score |-> loc.rsi_score,
     volume_score |-> loc.volume_score, pattern_score |-> loc.pattern_score]

\* slip: a frame of exactly MinBars bars refused
analyze_needs_one_more(d, o) ==
    IF Len(d) <= MinBars THEN None ELSE result_of(analyze_locals(d, o))

analyze(d, o) ==
    IF Len(d) < MinBars THEN None ELSE result_of(analyze_locals(d, o))

analyze_frame(d, o) ==
    IF Len(d) < MinBars THEN None ELSE frame_of(analyze_locals(d, o))

-----------------------------------------------------------------------------
(* Inputs: price series and configurations *)

\* bars a data source may append after the base series
MaxTail == 2

BaseLen == MinBars - 1

\* base series: bar t (t = 0, 1, ...) is the start values plus t steps
Shapes ==
    {[name |-> "flat", h0 |-> 100, l0 |-> 100, c0 |-> 100,
      hs |-> 0, ls |-> 0, cs |-> 0, v0 |-> 100],
     [name |-> "range", h0 |-> 210, l0 |-> 190, c0 |-> 200,
      hs |-> 0, ls |-> 0, cs |-> 0, v0 |-> 0],
     [name |-> "up", h0 |-> 410, l0 |-> 390, c0 |-> 400,
      hs |-> 1, ls |-> 1, cs |-> 1, v0 |-> 100],
     [name |-> "down", h0 |-> 310, l0 |-> 290, c0 |-> 300,
      hs |-> -1, ls |-> -1, cs |-> -1, v0 |-> 100],
     [name |-> "converge", h0 |-> 300, l0 |-> 100, c0 |-> 200,
      hs |-> -1, ls |-> 1, cs |-> 0, v0 |-> 100],
     [name |-> "broaden", h0 |-> 210, l0 |-> 190, c0 |-> 200,
      hs |-> 1, ls |-> -1, cs |-> 0, v0 |-> 100],
     [name |-> "rising", h0 |-> 210, l0 |-> 190, c0 |-> 200,
      hs |-> 2, ls |-> 1, cs |-> 1, v0 |-> 100],
     [name |-> "falling", h0 |-> 710, l0 |-> 690, c0 |-> 700,
      hs |-> -1, ls |-> -2, cs |-> -1, v0 |-> 100]}

BaseSeries(sh, len) ==
    [i \in 1..len |->
        [high |-> sh.h0 + sh.hs * (i - 1), low |-> sh.l0 + sh.ls * (i - 1),
         close |-> sh.c0 + sh.cs * (i - 1), volume |-> sh.v0]]

\* the next bar, relative to the last one: the volume is scaled by vn/2
Moves ==
    {[name |-> "same", dh |-> 0, dl |-> 0, dc |-> 0, vn |-> 2],
     [name |-> "up", dh |-> 3, dl |-> 3, dc |-> 3, vn |-> 4],
     [name |-> "down", dh |-> -3, dl |-> -3, dc |-> -3, vn |-> 2],
     [name |-> "widen", dh |-> 3, dl |-> -3, dc |-> 0, vn |-> 1]}

NextBar(last, m) ==
    [high |-> last.high + m.dh, low |-> last.low + m.dl,
     close |-> last.close + m.dc, volume |-> (last.volume * m.vn) \div 2]

ShapeNamed(n) == CHOOSE sh \in Shapes : sh.name = n

MoveNamed(n) == CHOOSE m \in Moves : m.name = n

RECURSIVE WithMoves(_, _)
WithMoves(d, ms) ==
    IF ms = <<>> THEN d
    ELSE WithMoves(Append(d, NextBar(d[Len(d)], MoveNamed(Head(ms)))), Tail(ms))

\* 49 bars that end, once one unchanged bar has followed, in fourteen close
\* differences with gains 9 and losses 21, or gains 21 and losses 9
RsiBoundaryFrames ==
    {WithMoves(BaseSeries(ShapeNamed("flat"), BaseLen - 10),
               <<"up", "up", "up",
                 "down", "down", "down", "down", "down", "down", "down">>),
     WithMoves(BaseSeries(ShapeNamed("flat"), BaseLen - 10),
               <<"down", "down", "down",
                 "up", "up", "up", "up", "up", "up", "up">>)}

InitFrames == {BaseSeries(sh, BaseLen) : sh \in Shapes} \cup RsiBoundaryFrames

\* atr_multiplier in tenths, entry_range_pct in thousandths
DefaultConfig == [atr_multiplier |-> 10, entry_range_pct |-> 20]

Configs ==
    {DefaultConfig,
     [atr_multiplier |-> 25, entry_range_pct |-> 0],
     [atr_multiplier |-> -10, entry_range_pct |-> 50]}

StrictlyIncreasing(s) == \A i \in 1..(Len(s) - 1) : s[i] < s[i + 1]

StrictlyDecreasing(s) == \A i \in 1..(Len(s) - 1) : s[i] > s[i + 1]

\* the outcomes of ema_13.iloc[-1] > ema_21.iloc[-1] that are left open.  Both
\* averages, of pandas and of TA-Lib, weigh the closes with weights that grow
\* towards the last bar, the faster one more steeply, so on strictly rising
\* closes the faster average is the higher one and on strictly falling
\* closes the lower one.
EmaOutcomes(d) ==
    IF Len(d) < EmaMinBars \/ ~EmaOpen(d) THEN {FALSE}
    ELSE IF StrictlyIncreasing(Col(d, "close")) THEN {TRUE}
    ELSE IF StrictlyDecreasing(Col(d, "close")) THEN {FALSE}
    ELSE BOOLEAN

\* the values talib.ATR may end with; the first AtrPeriod values are NaN,
\* which calculate_atr turns into 0.0
NonDecreasing(s) == \A i \in 1..(Len(s) - 1) : s[i] <= s[i + 1]

NonIncreasing(s) == \A i \in 1..(Len(s) - 1) : s[i] >= s[i + 1]

\* talib.RSI(...).iloc[-1]: Wilder's averages run over the whole series, so
\* closes that never fall leave the average loss at 0 and the RSI at 100, and
\* closes that never rise leave the average gain at 0 and the RSI at 0 (a
\* constant series included); any other series has one of the listed values
RsiOutcomes(d) ==
    IF ~TALIB_AVAILABLE THEN {50}
    ELSE IF NonIncreasing(Col(d, "close")) THEN {0}
    ELSE IF NonDecreasing(Col(d, "close")) THEN {100}
    ELSE TalibRsiValues

AtrOutcomes(d) ==
    IF TALIB_AVAILABLE /\ Len(d) > AtrPeriod THEN TalibAtrValues ELSE {0}

\* the oracle records that analyze(d, .) can meet: a field the call does not
\* read is held at its NoOracle value; equal arrays have equal residues
Oracles(d) ==
    IF Len(d) < MinBars THEN {NoOracle}
    ELSE
      LET highs == tail(Col(d, "high"), PatternPeriod)
          lows == tail(Col(d, "low"), PatternPeriod)
          closes == tail(Col(d, "close"), PatternPeriod)
          Res(y) == IF SlopeNum(y) = 0 THEN Residues ELSE {0}
      IN  {o \in [h : Res(highs), l : Res(lows), c : Res(closes),
                  ema : EmaOutcomes(d),
                  rsi : RsiOutcomes(d),
                  atr : AtrOutcomes(d)] :
              /\ highs = lows => o.h = o.l
              /\ highs = closes => o.h = o.c
              /\ lows = closes => o.l = o.c}

-----------------------------------------------------------------------------
(* The scoring engine, called on one frame *)

NotCalled == [tag |-> "NotCalled"]

\* core.py:62-72, the configuration written when there is no config file
DefaultBotConfig == [min_score |-> 3, max_signals |-> 5]

NoScan ==
    /\ config = DefaultBotConfig
    /\ data_provider = FALSE
    /\ scan_pc = "idle"
    /\ scan_assets = <<>>
    /\ scan_log = <<>>
    /\ scan_results = <<>>
    /\ scan_return = NotCalled
    /\ signals = <<>>

\* botcore TradingBot.__init__: nothing is monitored
NoMonitoring ==
    /\ entry_positions = <<>>
    /\ position_ids = <<>>
    /\ alert_active = FALSE
    /\ monitors = <<>>
    /\ close_calls = <<>>
    /\ run_pc = "menu"

\* no call of the bot outside the scan has been made
NoBot ==
    /\ asset_call = NotCalled
    /\ stop_scheduler = FALSE
    /\ scheduler_thread = 0
    /\ threads = <<>>
    /\ jobs = <<>>
    /\ set_mode_pc = "idle"
    /\ NoMonitoring

EmptyDb ==
    /\ positions = <<>>
    /\ trade_history = <<>>
    /\ last_close = NotCalled
    /\ selected = NotCalled
    /\ entry = NotCalled

NoCalls ==
    /\ series = <<>>
    /\ platform = <<>>
    /\ calls = <<>>

NoAnalysis ==
    /\ df = <<>>
    /\ result = NotCalled
    /\ frame = NotCalled
    /\ helper = NotCalled
    /\ NoCalls

Init ==
    /\ \/ TALIB_AVAILABLE = FALSE /\ strategy \in Configs
       \/ TALIB_AVAILABLE = TRUE /\ strategy = DefaultConfig
    /\ df \in InitFrames
    /\ result = NotCalled
    /\ frame = NotCalled
    /\ helper = NotCalled
    /\ NoCalls
    /\ NoScan
    /\ NoBot
    /\ EmptyDb

\* the data source delivers one more bar
AppendBar ==
    /\ result = NotCalled
    /\ Len(df) < BaseLen + MaxTail
    /\ \E m \in Moves : df' = Append(df, NextBar(df[Len(df)], m))
    /\ UNCHANGED <<TALIB_AVAILABLE, bot_vars, strategy, result, frame, helper, call_vars,
                   scan_vars, db_vars>>

\* the fits of the call return the exact slopes
ExactFit(o) == o.h = 0 /\ o.l = 0 /\ o.c = 0

AnalyzeWith(o) ==
    /\ result' = analyze(df, o)
    /\ frame' = analyze_frame(df, o)

\* strategy.analyze(df)
Analyze ==
    /\ result = NotCalled
    /\ \/ \E o \in {x \in Oracles(df) : ExactFit(x)} : AnalyzeWith(o)
       \/ \E o \in {x \in Oracles(df) : ~ExactFit(x)} : AnalyzeWith(o)
    /\ UNCHANGED <<TALIB_AVAILABLE, bot_vars, strategy, df, helper, call_vars, scan_vars, db_vars>>

Next == AppendBar \/ Analyze

Spec == Init /\ [][Next]_vars

-----------------------------------------------------------------------------
(* Claims about analyze *)

Called == result # NotCalled

Returned == result # NotCalled /\ result # None

LastClose == df[Len(df)].close

\* the level fields of a result, in the order of the dict
LevelFields(r) == <<r.ideal_entry, r.entry_low, r.entry_high, r.tp1, r.tp2, r.tp3, r.sl>>

\* atr * atr_multiplier of a result, in units of 1/Scale
AtrTimesMultiplier(r) == (r.atr * strategy.atr_multiplier) \div 10

\* constant open/high/low/close and constant volume
IsFlat(d) ==
    \A i \in 1..Len(d) :
        /\ d[i].high = d[1].close /\ d[i].low = d[1].close /\ d[i].close = d[1].close
        /\ d[i].volume = d[1].volume

\* C1: analyze returns None for every series of fewer than 50 bars, and a
\* result record (a dict with an action) for every series of at least 50 bars.
C1_ShortSeriesGivesNone ==
    Called =>
        /\ Len(df) < 50 => result = None
        /\ Len(df) >= 50 =>
              /\ result # None
              /\ result.action \in {"LONG", "SHORT", "NEUTRAL"}

C1_Witness == Called /\ Len(df) = 49 /\ result = None

\* C2: in every result, score is exactly the sum of the four partial scores
\* trend_score, rsi_score, volume_score and pattern_score of the same call.
C2_ScoreIsSumOfParts ==
    Returned =>
        /\ result.score =
             frame.trend_score + frame.rsi_score + frame.volume_score + frame.pattern_score
        /\ result.pattern_score = frame.pattern_score

C2_Witness ==
    /\ Returned
    /\ frame.trend_score > 0 /\ frame.rsi_score < 0
    /\ frame.volume_score < 0 /\ frame.pattern_score > 0

\* C3: in every result, action is LONG exactly when score > 0, SHORT exactly
\* when score < 0 and NEUTRAL exactly when score = 0.
C3_ActionFollowsSign ==
    Returned =>
        /\ result.action = "LONG" <=> result.score > 0
        /\ result.action = "SHORT" <=> result.score < 0
        /\ result.action = "NEUTRAL" <=> result.score = 0

C3_Witness == Returned /\ result.action = "NEUTRAL" /\ result.score = 0

\* C5: a LONG result with ideal_entry E > 0, ATR A, multiplier M and
\* entry_range_pct > 0 has TP1 = E + A*M, TP2 = E + 2*A*M, TP3 = E + 3*A*M,
\* SL = E - A*M, E equal to the last close, and entry_low < E < entry_high.
C5_LongLevels ==
    (/\ Returned
     /\ result.action = "LONG"
     /\ result.ideal_entry # Null
     /\ result.ideal_entry[1] > 0
     /\ strategy.entry_range_pct > 0) =>
        LET E == result.ideal_entry[1]
            AM == AtrTimesMultiplier(result)
        IN  /\ result.tp1 = Some(E + AM)
            /\ result.tp2 = Some(E + 2 * AM)
            /\ result.tp3 = Some(E + 3 * AM)
            /\ result.sl = Some(E - AM)
            /\ E = LastClose * Scale
            /\ result.entry_low[1] < E
            /\ E < result.entry_high[1]

C5_Witness ==
    /\ Returned
    /\ result.action = "LONG"
    /\ strategy.entry_range_pct > 0
    /\ AtrTimesMultiplier(result) > 0
    /\ result.tp3 = Some(LastClose * Scale + 3 * AtrTimesMultiplier(result))

\* C6: a SHORT result with ideal_entry E, ATR A and multiplier M has
\* TP_n = E - n*A*M for n = 1, 2, 3 and SL = E + A*M; when A*M >= 0 the
\* targets lie at or below the entry and the stop at or above it.
C6_ShortLevels ==
    (Returned /\ result.action = "SHORT") =>
        LET E == result.ideal_entry[1]
            AM == AtrTimesMultiplier(result)
        IN  /\ result.tp1 = Some(E - AM)
            /\ result.tp2 = Some(E - 2 * AM)
            /\ result.tp3 = Some(E - 3 * AM)
            /\ result.sl = Some(E + AM)
            /\ AM >= 0 =>
                  /\ result.tp1[1] <= E /\ result.tp2[1] <= E /\ result.tp3[1] <= E
                  /\ result.sl[1] >= E

C6_Witness ==
    /\ Returned
    /\ result.action = "SHORT"
    /\ AtrTimesMultiplier(result) > 0
    /\ result.tp3[1] < result.tp1[1] /\ result.tp1[1] < result.ideal_entry[1]
    /\ result.sl[1] > result.ideal_entry[1]

\* C7: in every result the seven level fields are all set when action is
\* LONG or SHORT and all None when action is NEUTRAL: never some of each.
C7_LevelsAllOrNone ==
    Returned =>
        /\ result.action \in {"LONG", "SHORT"} =>
              \A i \in 1..7 : LevelFields(result)[i] # Null
        /\ result.action = "NEUTRAL" =>
              \A i \in 1..7 : LevelFields(result)[i] = Null

C7_Witness ==
    /\ Returned
    /\ result.action = "NEUTRAL"
    /\ \A i \in 1..7 : LevelFields(result)[i] = Null

FlagSet(r, k) == k \in DOMAIN r.pattern_details /\ r.pattern_details[k]

\* the flags decided by a regression slope
SlopeFlags ==
    {"symmetrical_triangle", "ascending_triangle", "descending_triangle",
     "broadening_ascending", "broadening_descending", "broadending_descending",
     "uptrend_channel", "downtrend_channel", "ranging_channel",
     "rising_wedge", "falling_wedge"}

FlatCall == Called /\ IsFlat(df) /\ Len(df) >= 50

\* C4 as stated: a perfectly flat series of at least 50 bars yields all
\* slope-based pattern flags false, volume_ratio = 1, RSI = 50, score = 0 and
\* action NEUTRAL.
C4_FlatSeriesIsNeutral ==
    FlatCall =>
        /\ result # None
        /\ \A k \in SlopeFlags : ~FlagSet(result, k)
        /\ result.volume_ratio.n = result.volume_ratio.d
        /\ result.rsi.n = 50 * result.rsi.d
        /\ result.score = 0
        /\ result.action = "NEUTRAL"

\* C4 as amended: a perfectly flat series of at least 50 bars yields
\* volume_ratio = 1, every triangle, broadening and wedge flag false, and
\* ranging_channel and gartley true; with the built-in indicators (no
\* TA-Lib) RSI = 50, the EMA trend is BEARISH (trend_score -1) and the score
\* is never 0: 1 with neither trend channel set, 3 with uptrend_channel set,
\* -1 with downtrend_channel set (the channel follows the sign of the slope
\* residue of the fit), so the action is LONG or SHORT, never NEUTRAL.
C4_FlatSeriesScores ==
    FlatCall =>
        /\ result # None
        /\ result.volume_ratio.n = result.volume_ratio.d
        /\ \A k \in SlopeFlags \ {"uptrend_channel", "downtrend_channel", "ranging_channel"} :
              ~FlagSet(result, k)
        /\ FlagSet(result, "ranging_channel")
        /\ FlagSet(result, "gartley")
        /\ ~TALIB_AVAILABLE =>
              /\ result.rsi.n = 50 * result.rsi.d
              /\ result.ema_trend = "BEARISH"
              /\ frame.trend_score = -1
              /\ result.score =
                    IF FlagSet(result, "uptrend_channel") THEN 3
                    ELSE IF FlagSet(result, "downtrend_channel") THEN -1
                    ELSE 1
              /\ result.action = (IF result.score > 0 THEN "LONG" ELSE "SHORT")

C4_Witness ==
    /\ FlatCall
    /\ ~TALIB_AVAILABLE
    /\ result.score = 1
    /\ result.action = "LONG"
    /\ result.detected_patterns = <<"ranging_channel", "gartley">>


-----------------------------------------------------------------------------
(* TradingBot.scan_potential_assets *)

\* the mode the scan runs in, one of the three of set_mode
mode == "crypto"

\* the head of the fallback list of get_popular_assets
FallbackAssets == <<"BTC/USDT", "ETH/USDT", "BNB/USDT", "SOL/USDT", "ADA/USDT">>

\* the longest list of popular assets a scan walks through
MaxAssets == 3

\* the frames get_ohlcv may deliver for an asset
ScanFrames ==
    {BaseSeries(ShapeNamed("up"), BaseLen),
     WithMoves(BaseSeries(ShapeNamed("up"), BaseLen), <<"same">>),
     WithMoves(BaseSeries(ShapeNamed("up"), BaseLen), <<"down">>),
     WithMoves(BaseSeries(ShapeNamed("down"), BaseLen), <<"same">>),
     WithMoves(BaseSeries(ShapeNamed("down"), BaseLen), <<"down">>),
     WithMoves(BaseSeries(ShapeNamed("down"), BaseLen), <<"widen">>)}

\* what get_ohlcv does for one asset: it raises, returns None, returns a
\* frame, or returns a frame without the columns analyze reads
FetchOutcomes ==
    {[kind |-> "raises"], [kind |-> "none"], [kind |-> "malformed"]}
    \cup {[kind |-> "frame", df |-> f] : f \in ScanFrames}

\* what db.save_signal does: it returns the id, raises before its commit
\* (get_connection, cursor.execute, conn.commit) or raises after it (fetchone)
SaveOutcomes == {"saved", "raises", "raises_after_commit"}

BotConfigs ==
    {DefaultBotConfig,
     [min_score |-> 3, max_signals |-> 2],
     [min_score |-> -2, max_signals |-> 2]}

\* the mutant of passes_filter: the score is not compared with min_score
passes_filter_any_score(analysis, min_score) ==
    /\ analysis # None
    /\ analysis.action \in {"LONG", "SHORT"}

\* the filter had it compared the size of the score with min_score
passes_filter_by_magnitude(analysis, min_score) ==
    /\ analysis # None
    /\ analysis.action \in {"LONG", "SHORT"}
    /\ Abs(analysis.score) >= min_score

\* the condition of the if statement on the analysis of one asset
passes_filter(analysis, min_score) ==
    /\ analysis # None
    /\ analysis.action \in {"LONG", "SHORT"}
    /\ analysis.score >= min_score

\* the columns of the signals table that save_signal fills from the dict
signal_row(data) ==
    [symbol |-> data.symbol, market_type |-> data.market_type,
     action |-> data.action, entry_low |-> data.entry_low,
     entry_high |-> data.entry_high, tp1 |-> data.tp1, tp2 |-> data.tp2,
     tp3 |-> data.tp3, sl |-> data.sl, current_price |-> data.current_price,
     score |-> data.score]

\* list.sort(key=score, reverse=True): stable, equal scores keep their order
insert_by_score(sorted, x) ==
    LET k == Cardinality({i \in 1..Len(sorted) : sorted[i].score >= x.score})
    IN  SubSeq(sorted, 1, k) \o <<x>> \o SubSeq(sorted, k + 1, Len(sorted))

RECURSIVE sort_by_score(_)
sort_by_score(s) ==
    IF s = <<>> THEN <<>>
    ELSE insert_by_score(sort_by_score(SubSeq(s, 1, Len(s) - 1)), s[Len(s)])

\* the slice had it kept every result
head_keeps_all(s, n) == s

\* results[:n]
head(s, n) == SubSeq(s, 1, IF n < Len(s) THEN n ELSE Len(s))

Raised == [tag |-> "Raised"]

\* the scan returned the list v
Return(v) == [tag |-> "Return", value |-> v]

InitScan ==
    /\ TALIB_AVAILABLE = FALSE
    /\ strategy = DefaultConfig
    /\ NoAnalysis
    /\ config \in BotConfigs
    /\ data_provider \in BOOLEAN
    /\ scan_pc = "idle"
    /\ scan_assets = <<>>
    /\ scan_log = <<>>
    /\ scan_results = <<>>
    /\ scan_return = NotCalled
    /\ signals = <<>>
    /\ NoBot
    /\ EmptyDb

\* the guard on data_provider, then results = [] and get_popular_assets,
\* which returns the list of the provider or [] when it fails
ScanBegin ==
    /\ scan_pc = "idle"
    /\ IF ~data_provider
       THEN /\ scan_return' = Return(<<>>)
            /\ scan_pc' = "done"
            /\ UNCHANGED <<scan_assets, scan_results>>
       ELSE /\ \E n \in 0..MaxAssets : scan_assets' = SubSeq(FallbackAssets, 1, n)
            /\ scan_results' = <<>>
            /\ scan_pc' = "loop"
            /\ UNCHANGED scan_return
    /\ UNCHANGED <<TALIB_AVAILABLE, bot_vars, strategy, analysis_vars, config,
                   data_provider, scan_log, signals, db_vars>>

\* the mutant of except_continue: the exception leaves the scan
except_reraise == scan_pc' = "done" /\ scan_return' = Raised

\* except Exception: print, continue
except_continue == UNCHANGED <<scan_pc, scan_return>>

\* the iteration of an asset ends without a report
skipped(asset, outcome, analysis) ==
    /\ scan_log' = Append(scan_log, [asset |-> asset, outcome |-> outcome,
                                     analysis |-> analysis])
    /\ UNCHANGED <<scan_results, signals>>

\* one iteration of the for loop
ScanAsset ==
    /\ scan_pc = "loop"
    /\ Len(scan_log) < Len(scan_assets)
    /\ LET asset == scan_assets[Len(scan_log) + 1]
       IN  \E fetch \in FetchOutcomes :
             \/ /\ fetch.kind = "raises"
                /\ skipped(asset, "fetch_error", None)
                /\ except_continue
             \/ /\ \/ fetch.kind = "none"
                   \/ fetch.kind = "frame" /\ Len(fetch.df) < MinBars
                /\ skipped(asset, "insufficient", None)
                /\ UNCHANGED <<scan_pc, scan_return>>
             \/ /\ fetch.kind = "malformed"
                /\ skipped(asset, "analyze_error", None)
                /\ except_continue
             \/ /\ fetch.kind = "frame" /\ Len(fetch.df) >= MinBars
                /\ \E o \in Oracles(fetch.df) :
                   \E analysis \in {analyze(fetch.df, o)} :
                     IF passes_filter(analysis, config.min_score)
                     THEN \E data \in {[symbol |-> asset, market_type |-> mode]
                                       @@ analysis} :
                          \E save \in SaveOutcomes :
                            /\ signals' = IF save = "raises" THEN signals
                                          ELSE Append(signals, signal_row(data))
                            /\ scan_results' = IF save = "saved"
                                               THEN Append(scan_results, data)
                                               ELSE scan_results
                            /\ scan_log' = Append(scan_log,
                                  [asset |-> asset,
                                   outcome |-> IF save = "saved" THEN "reported"
                                               ELSE "save_error",
                                   analysis |-> data])
                            /\ IF save = "saved"
                               THEN UNCHANGED <<scan_pc, scan_return>>
                               ELSE except_continue
                     ELSE /\ skipped(asset, "filtered", analysis)
                          /\ UNCHANGED <<scan_pc, scan_return>>
    /\ UNCHANGED <<TALIB_AVAILABLE, bot_vars, strategy, analysis_vars, config,
                   data_provider, scan_assets, db_vars>>

\* results.sort(...) and return results[:max_signals]
ScanEnd ==
    /\ scan_pc = "loop"
    /\ Len(scan_log) = Len(scan_assets)
    /\ scan_results' = sort_by_score(scan_results)
    /\ scan_return' = Return(head(scan_results', config.max_signals))
    /\ scan_pc' = "done"
    /\ UNCHANGED <<TALIB_AVAILABLE, bot_vars, strategy, analysis_vars, config,
                   data_provider, scan_assets, scan_log, signals, db_vars>>

\* the filter of the scan put in analyze_asset
returns_analysis_if_signal(analysis) ==
    analysis # None /\ analysis.action \in {"LONG", "SHORT"}

\* if analysis: in analyze_asset
returns_analysis(analysis) == analysis # None

\* analyze_asset ends at outcome with value v
asset_returns(symbol, outcome, v) ==
    asset_call' = [symbol |-> symbol, outcome |-> outcome, value |-> v]

\* bot.analyze_asset(symbol)
AnalyzeAsset ==
    /\ asset_call = NotCalled
    /\ \E symbol \in {FallbackAssets[i] : i \in 1..MaxAssets} :
          IF ~data_provider
          THEN asset_returns(symbol, "no_provider", None) /\ UNCHANGED signals
          ELSE \E fetch \in FetchOutcomes :
                 \/ /\ fetch.kind = "raises"
                    /\ asset_returns(symbol, "fetch_error", None)
                    /\ UNCHANGED signals
                 \/ /\ \/ fetch.kind = "none"
                       \/ fetch.kind = "frame" /\ ~(Len(fetch.df) >= MinBars)
                    /\ asset_returns(symbol, "insufficient", None)
                    /\ UNCHANGED signals
                 \/ /\ fetch.kind = "malformed"
                    /\ asset_returns(symbol, "analyze_error", None)
                    /\ UNCHANGED signals
                 \/ /\ fetch.kind = "frame" /\ Len(fetch.df) >= MinBars
                    /\ \E o \in Oracles(fetch.df) :
                       \E analysis \in {analyze(fetch.df, o)} :
                         IF returns_analysis(analysis)
                         THEN \E data \in {[symbol |-> symbol, market_type |-> mode]
                                           @@ analysis} :
                              \E save \in SaveOutcomes :
                                /\ signals' = IF save = "raises" THEN signals
                                              ELSE Append(signals, signal_row(data))
                                /\ IF save = "saved"
                                   THEN asset_returns(symbol, "returned", data)
                                   ELSE asset_returns(symbol, "save_error", None)
                         ELSE /\ asset_returns(symbol, "no_analysis", None)
                              /\ UNCHANGED signals
    /\ UNCHANGED <<TALIB_AVAILABLE, strategy, analysis_vars, config, data_provider,
                   scan_pc, scan_assets, scan_log, scan_results, scan_return,
                   sched_vars, monitor_vars, db_vars>>

NextScan == ScanBegin \/ ScanAsset \/ ScanEnd

SpecScan == InitScan /\ [][NextScan]_vars

\* one analyze_asset call on a bot that has not scanned
NextAsset == AnalyzeAsset

SpecAsset == InitScan /\ [][NextAsset]_vars

-----------------------------------------------------------------------------
(* TradingBot: set_mode and the background scheduler *)

\* the most _run_scheduler threads started in a run
MaxThreads == 4

\* what set_mode is called with; the last is none of the three modes
Modes == {"crypto", "forex", "saham_id", "spot"}

ValidModes == {"crypto", "forex", "saham_id"}

\* the two schedule.every(...).do(...) calls of a thread
registered_by(t) ==
    <<[job |-> "update_all_prices", by |-> t],
      [job |-> "scan_potential_assets", by |-> t]>>

\* Thread.is_alive()
is_alive(t) == threads[t] # "dead"

\* the tail of start_background_tasks: the flag is cleared and a thread started
start_thread ==
    /\ stop_scheduler' = FALSE
    /\ threads' = Append(threads, "start")
    /\ scheduler_thread' = Len(threads) + 1

\* bot.set_mode(m) up to the join of stop_background_tasks, or to its end
\* when there is no live thread to stop
SetMode ==
    /\ set_mode_pc = "idle"
    /\ Len(threads) < MaxThreads
    /\ \E m \in Modes :
          IF m \notin ValidModes
          THEN /\ data_provider' = FALSE
               /\ UNCHANGED sched_vars
          ELSE /\ data_provider' = TRUE
               /\ IF scheduler_thread # 0 /\ is_alive(scheduler_thread)
                  THEN /\ stop_scheduler' = TRUE
                       /\ set_mode_pc' = "join"
                       /\ UNCHANGED <<scheduler_thread, threads, jobs>>
                  ELSE /\ start_thread
                       /\ UNCHANGED <<jobs, set_mode_pc>>
    /\ UNCHANGED <<TALIB_AVAILABLE, strategy, analysis_vars, config, scan_pc,
                   scan_assets, scan_log, scan_results, scan_return, signals,
                   asset_call, monitor_vars, db_vars>>

\* join(timeout=5) returns: the thread has ended, or five seconds have passed
\* while it runs a job; the new thread is started either way
JoinReturns ==
    /\ set_mode_pc = "join"
    /\ threads[scheduler_thread] \in {"dead", "pending"}
    /\ start_thread
    /\ set_mode_pc' = "idle"
    /\ UNCHANGED <<TALIB_AVAILABLE, strategy, analysis_vars, scan_vars, asset_call,
                   jobs, monitor_vars, db_vars>>

\* a step of thread t changes threads[t] to pc
thread_goes(t, pc) ==
    /\ threads' = [threads EXCEPT ![t] = pc]
    /\ UNCHANGED <<TALIB_AVAILABLE, strategy, analysis_vars, scan_vars, asset_call,
                   stop_scheduler, scheduler_thread, set_mode_pc, monitor_vars,
                   db_vars>>

\* the head of _run_scheduler: the two jobs are put on the schedule
RegisterJobs ==
    \E t \in DOMAIN threads :
        /\ threads[t] = "start"
        /\ jobs' = jobs \o registered_by(t)
        /\ thread_goes(t, "loop")

\* while not self.stop_scheduler: schedule.run_pending() begins
RunPending ==
    \E t \in DOMAIN threads :
        /\ threads[t] = "loop"
        /\ ~stop_scheduler
        /\ thread_goes(t, "pending")
        /\ UNCHANGED jobs

\* run_pending and time.sleep(1) return
PendingDone ==
    \E t \in DOMAIN threads :
        /\ threads[t] = "pending"
        /\ thread_goes(t, "loop")
        /\ UNCHANGED jobs

\* the while test finds stop_scheduler set and the thread ends
SchedulerExits ==
    \E t \in DOMAIN threads :
        /\ threads[t] = "loop"
        /\ stop_scheduler
        /\ thread_goes(t, "dead")
        /\ UNCHANGED jobs

InitSched ==
    /\ TALIB_AVAILABLE = FALSE
    /\ strategy = DefaultConfig
    /\ NoAnalysis
    /\ NoScan
    /\ NoBot
    /\ EmptyDb

NextSched ==
    SetMode \/ JoinReturns \/ RegisterJobs \/ RunPending \/ PendingDone
    \/ SchedulerExits

SpecSched == InitSched /\ [][NextSched]_vars

-----------------------------------------------------------------------------
(* botcore TradingBot: the menus that enable monitoring and start_monitoring *)

\* the most start_monitoring threads entered
MaxMonitors == 2

\* the head of the default symbols
MonSymbols == <<"SOL/USDT", "ADA/USDT">>

\* what get_ticker reports as the last price
TickPrices == {70, 80, 90, 100, 110, 120, 130}

\* what get_ticker does: it raises, returns nothing, or returns a ticker
TickerOutcomes ==
    {[kind |-> "raises"], [kind |-> "none"]}
    \cup {[kind |-> "ticker", last |-> p] : p \in TickPrices}

\* the dict the menus build for an entry at 100 with atr * atr_multiplier = 10;
\* hits holds the keys tp1_hit and tp2_hit once they are set, and the key
\* current_price, which the monitoring writes and never reads, is left out
monitored_position(action) ==
    LET step == IF action = "LONG" THEN 10 ELSE -10
    IN  [action |-> action, entry |-> 100,
         tp1 |-> 100 + step, tp2 |-> 100 + 2 * step, tp3 |-> 100 + 3 * step,
         sl |-> 100 - step, hits |-> {}]

\* the branch of the if/elif ladder that current_price takes
reached(position, current_price) ==
    IF position.action = "LONG"
    THEN IF current_price <= position.sl THEN "SL"
         ELSE IF current_price >= position.tp3 THEN "TP3"
         ELSE IF current_price >= position.tp2 THEN "TP2"
         ELSE IF current_price >= position.tp1 THEN "TP1"
         ELSE "none"
    ELSE IF position.action = "SHORT"
    THEN IF current_price >= position.sl THEN "SL"
         ELSE IF current_price <= position.tp3 THEN "TP3"
         ELSE IF current_price <= position.tp2 THEN "TP2"
         ELSE IF current_price <= position.tp1 THEN "TP1"
         ELSE "none"
    ELSE "none"

\* self.db.update_position(...): DatabaseHandler defines no such method, so
\* the attribute lookup raises AttributeError
update_position_raises == TRUE

\* self.db.save_position(position): the method takes eight positional
\* arguments and is given one dict, so the call raises TypeError
save_position_raises == TRUE

\* del d[k]
Without(d, k) == [s \in DOMAIN d \ {k} |-> d[s]]

\* list(self.entry_positions.items()): each dict is held by reference, which
\* the symbol and the action stand for
items(d) ==
    LET keys == SelectSeq(MonSymbols, LAMBDA k : k \in DOMAIN d)
    IN  [i \in 1..Len(keys) |-> [symbol |-> keys[i], action |-> d[keys[i]].action]]

NoPosition == [symbol |-> "", action |-> ""]

\* a thread that has entered start_monitoring: todo is what the for loop has
\* left, position and price are the pair and the ticker price of the
\* iteration under way or just ended (0 when it got no ticker)
entered ==
    [pc |-> "while", todo |-> <<>>, position |-> NoPosition, price |-> 0,
     closing |-> FALSE]

\* thread t goes on as m, the rest of the bot aside
monitor_goes(t, m) ==
    /\ run_pc = "menu"
    /\ monitors' = [monitors EXCEPT ![t] = m]
    /\ UNCHANGED <<TALIB_AVAILABLE, strategy, analysis_vars, scan_vars, asset_call,
                   sched_vars, run_pc, db_vars>>

\* the iteration of the for loop ends, by continue, by an exception caught
\* at the per-symbol except, or at the end of its body
next_symbol(m) == [m EXCEPT !.pc = "fetch", !.todo = Tail(@), !.closing = FALSE]

\* while self.alert_active and self.entry_positions: the for loop begins
MonitorWhile ==
    \E t \in DOMAIN monitors :
        /\ monitors[t].pc = "while"
        /\ IF alert_active /\ DOMAIN entry_positions # {}
           THEN monitor_goes(t, [monitors[t] EXCEPT !.pc = "fetch",
                                                    !.todo = items(entry_positions)])
           ELSE monitor_goes(t, [monitors[t] EXCEPT !.pc = "ended"])
        /\ UNCHANGED <<entry_positions, position_ids, alert_active, close_calls>>

\* get_ticker, the current_price assignment and the update of the store
MonitorFetch ==
    \E t \in DOMAIN monitors :
        /\ monitors[t].pc = "fetch"
        /\ monitors[t].todo # <<>>
        /\ LET m == monitors[t]
               symbol == m.todo[1].symbol
           IN  \E ticker \in TickerOutcomes :
                 IF ticker.kind # "ticker"
                 THEN \* except, or continue
                      monitor_goes(t, next_symbol([m EXCEPT !.position = m.todo[1],
                                                            !.price = 0]))
                 ELSE \E ticked \in {[m EXCEPT !.position = m.todo[1],
                                                !.price = ticker.last]} :
                      IF \/ symbol \notin DOMAIN entry_positions
                         \/ /\ symbol \in DOMAIN position_ids
                            /\ position_ids[symbol] # 0
                            /\ update_position_raises
                      THEN \* KeyError or AttributeError, and except
                           monitor_goes(t, next_symbol(ticked))
                      ELSE monitor_goes(t, [ticked EXCEPT !.pc = "check"])
        /\ UNCHANGED <<entry_positions, position_ids, alert_active, close_calls>>

\* the if/elif ladder up to the close_position call or the tp flag
MonitorCheck ==
    \E t \in DOMAIN monitors :
        /\ monitors[t].pc = "check"
        /\ LET m == monitors[t]
               symbol == m.todo[1].symbol
               position == IF symbol \in DOMAIN entry_positions
                           THEN entry_positions[symbol]
                           ELSE monitored_position(m.todo[1].action)
               branch == reached(position, m.price)
               flag == IF branch = "TP2" THEN "tp2_hit" ELSE "tp1_hit"
           IN  IF branch \in {"SL", "TP3"}
               THEN /\ close_calls' =
                         IF symbol \in DOMAIN position_ids
                         THEN Append(close_calls,
                                  [symbol |-> symbol,
                                   position_id |-> position_ids[symbol],
                                   exit_type |-> branch])
                         ELSE close_calls
                    /\ monitor_goes(t, [m EXCEPT !.pc = "remove",
                                         !.closing = symbol \in DOMAIN position_ids])
                    /\ UNCHANGED entry_positions
               ELSE /\ entry_positions' =
                         IF /\ branch \in {"TP2", "TP1"}
                            /\ flag \notin position.hits
                            /\ symbol \in DOMAIN entry_positions
                         THEN [entry_positions EXCEPT ![symbol].hits = @ \cup {flag}]
                         ELSE entry_positions
                    /\ monitor_goes(t, next_symbol(m))
                    /\ UNCHANGED close_calls
        /\ UNCHANGED <<position_ids, alert_active>>

\* del self.position_ids[symbol] after a close, del self.entry_positions[symbol]
MonitorRemove ==
    \E t \in DOMAIN monitors :
        /\ monitors[t].pc = "remove"
        /\ LET m == monitors[t]
               symbol == m.todo[1].symbol
           IN  /\ IF m.closing /\ symbol \notin DOMAIN position_ids
                  THEN \* KeyError
                       UNCHANGED <<position_ids, entry_positions>>
                  ELSE /\ position_ids' = IF m.closing THEN Without(position_ids, symbol)
                                          ELSE position_ids
                       /\ entry_positions' = Without(entry_positions, symbol)
               /\ monitor_goes(t, next_symbol(m))
        /\ UNCHANGED <<alert_active, close_calls>>

\* the for loop is through: the monitoring ends when nothing is left, or
\* sleeps and tests the while condition again
MonitorForDone ==
    \E t \in DOMAIN monitors :
        /\ monitors[t].pc = "fetch"
        /\ monitors[t].todo = <<>>
        /\ IF DOMAIN entry_positions = {}
           THEN /\ alert_active' = FALSE
                /\ monitor_goes(t, [monitors[t] EXCEPT !.pc = "ended"])
           ELSE /\ UNCHANGED alert_active
                /\ monitor_goes(t, [monitors[t] EXCEPT !.pc = "while"])
        /\ UNCHANGED <<entry_positions, position_ids, close_calls>>

\* menu 1 with one coin chosen, or menu 2 answered y: the position is put in
\* entry_positions, the alert switched on, the position saved and the
\* monitoring thread started; an exception of save_position ends run()
MenuMonitor ==
    /\ run_pc = "menu"
    /\ \E menu \in {1, 2}, i \in DOMAIN MonSymbols, action \in {"LONG", "SHORT"} :
          LET symbol == MonSymbols[i]
              coin == monitored_position(action)
              chosen == [s \in {symbol} |-> coin]
          IN  /\ entry_positions' = IF menu = 1 THEN chosen
                                    ELSE chosen @@ entry_positions
              /\ alert_active' = TRUE
              /\ IF save_position_raises
                 THEN \* the process ends and its daemon threads with it
                      /\ run_pc' = "ended"
                      /\ monitors' = <<>>
                      /\ UNCHANGED position_ids
                 ELSE /\ position_ids' = [s \in {symbol} |-> i] @@ position_ids
                      /\ monitors' = Append(monitors, entered)
                      /\ UNCHANGED run_pc
    /\ UNCHANGED <<TALIB_AVAILABLE, strategy, analysis_vars, scan_vars, asset_call,
                   sched_vars, close_calls, db_vars>>

\* start_monitoring entered by one or two threads, over the fields the menus
\* mean to leave: positions entered at 100, each with an id, or with None or
\* no entry in position_ids
InitMonitor ==
    /\ TALIB_AVAILABLE = FALSE
    /\ strategy = DefaultConfig
    /\ NoAnalysis
    /\ NoScan
    /\ asset_call = NotCalled
    /\ stop_scheduler = FALSE
    /\ scheduler_thread = 0
    /\ threads = <<>>
    /\ jobs = <<>>
    /\ set_mode_pc = "idle"
    /\ EmptyDb
    /\ \E n \in 1..Len(MonSymbols) :
          /\ entry_positions \in
                 [{MonSymbols[i] : i \in 1..n} ->
                     {monitored_position(a) : a \in {"LONG", "SHORT"}}]
          /\ \E with_id \in SUBSET {MonSymbols[1]} :
                position_ids \in [with_id \cup {MonSymbols[i] : i \in 2..n} -> {0, 1}]
          /\ \A i \in 2..n : /\ entry_positions[MonSymbols[i]].action = "LONG"
                              /\ position_ids[MonSymbols[i]] = 1
    /\ alert_active = TRUE
    /\ monitors \in {[t \in 1..k |-> entered] : k \in 1..MaxMonitors}
    /\ close_calls = <<>>
    /\ run_pc = "menu"

NextMonitor ==
    MonitorWhile \/ MonitorFetch \/ MonitorCheck \/ MonitorRemove
    \/ MonitorForDone \/ MenuMonitor

SpecMonitor == InitMonitor /\ [][NextMonitor]_vars

-----------------------------------------------------------------------------
(* Claims about scan_potential_assets *)

Symbols(rows) == {rows[i].symbol : i \in 1..Len(rows)}

\* the assets the scan has reported so far: returned, kept to return, or saved
Reported ==
    Symbols(scan_results) \cup Symbols(signals)
    \cup (IF scan_pc = "done" /\ scan_return # Raised
          THEN Symbols(scan_return.value) ELSE {})

\* an analysis that fails a condition of the caller-level filter
FailsFilter(a) == a # None /\ (a.action = "NEUTRAL" \/ a.score < config.min_score)

\* the visited assets whose step ended in the except clause
FailedAt == {i \in 1..Len(scan_log) :
                scan_log[i].outcome \in {"fetch_error", "analyze_error", "save_error"}}

\* C8: every asset the scan returns or saves as a signal has an analysis
\* with action other than NEUTRAL and score >= min_score, and no visited
\* asset whose analysis fails either condition is returned or saved.
C8_OnlyPassingAssetsReported ==
    /\ \A i \in 1..Len(scan_log) :
          FailsFilter(scan_log[i].analysis) => scan_log[i].asset \notin Reported
    /\ \A i \in 1..Len(scan_results) :
          scan_results[i].action # "NEUTRAL" /\ scan_results[i].score >= config.min_score
    /\ \A i \in 1..Len(signals) :
          signals[i].action # "NEUTRAL" /\ signals[i].score >= config.min_score
    /\ scan_pc = "done" /\ scan_return # Raised =>
          \A i \in 1..Len(scan_return.value) :
              /\ scan_return.value[i].action # "NEUTRAL"
              /\ scan_return.value[i].score >= config.min_score

\* a finished scan that returned an asset and left out one with a LONG below
\* min_score and one with a NEUTRAL analysis
C8_Witness ==
    /\ scan_pc = "done" /\ scan_return # Raised /\ Len(scan_return.value) > 0
    /\ \E i, j \in 1..Len(scan_log) :
          /\ scan_log[i].outcome = "filtered" /\ scan_log[i].analysis.action = "LONG"
          /\ scan_log[i].analysis.score < config.min_score
          /\ scan_log[j].outcome = "filtered" /\ scan_log[j].analysis.action = "NEUTRAL"

\* C9: a failure of the fetch, the analysis or the save of one asset leaves
\* the scan in its loop, which goes on to visit every later asset; the scan
\* ends with a returned list, and no failed asset is in that list.
C9_FailureSkipsOneAsset ==
    /\ FailedAt # {} => scan_pc \in {"loop", "done"} /\ scan_return # Raised
    /\ scan_pc = "done" /\ data_provider =>
          /\ scan_return # Raised
          /\ Len(scan_log) = Len(scan_assets)
          /\ \A i \in FailedAt : scan_log[i].asset \notin Symbols(scan_return.value)

\* a finished scan in which the fetch of the first asset failed, the save of
\* the second one failed, and the third asset was returned
C9_Witness ==
    /\ scan_pc = "done" /\ scan_return # Raised
    /\ Len(scan_log) = 3
    /\ scan_log[1].outcome \in {"fetch_error", "analyze_error"}
    /\ scan_log[2].outcome = "save_error"
    /\ scan_log[3].outcome = "reported"
    /\ scan_log[3].asset \in Symbols(scan_return.value)

-----------------------------------------------------------------------------
(* DatabaseHandler: the positions and trade_history tables *)

\* the most rows the positions table is given
MaxPositions == 2

\* the most rows the trade_history table is given
MaxTrades == 2

\* prices a position is entered at and closed at
EntryPrices == {100, 200}

ClosePrices == {90, 150}

ExitTypes == {"manual", "SL"}

\* the mutant of profit_loss_of: the SHORT branch is computed as the LONG one
profit_loss_of_long_only(action, entry_price, close_price) ==
    close_price - entry_price

\* the if statement on position[3] in close_position
profit_loss_of(action, entry_price, close_price) ==
    IF action = "LONG" THEN close_price - entry_price
    ELSE entry_price - close_price

\* the row save_position inserts; status takes the default of the schema
position_row(id, symbol, action, entry_price, step) ==
    [id |-> id, symbol |-> symbol, market_type |-> mode, action |-> action,
     entry_price |-> entry_price,
     entry_low |-> entry_price - 2, entry_high |-> entry_price + 2,
     tp1 |-> entry_price + step, tp2 |-> entry_price + 2 * step,
     tp3 |-> entry_price + 3 * step, sl |-> entry_price - step,
     current_price |-> entry_price, status |-> "active"]

\* the mutant of trade_row: the entry price is recorded as the exit price
trade_row_exit_is_entry(position, close_price, profit_loss, exit_type) ==
    [symbol |-> position.symbol, market_type |-> position.market_type,
     action |-> position.action, entry_price |-> position.entry_price,
     exit_price |-> position.entry_price, profit_loss |-> profit_loss,
     type |-> exit_type]

\* the row close_position inserts into trade_history
trade_row(position, close_price, profit_loss, exit_type) ==
    [symbol |-> position.symbol, market_type |-> position.market_type,
     action |-> position.action, entry_price |-> position.entry_price,
     exit_price |-> close_price, profit_loss |-> profit_loss,
     type |-> exit_type]

InitDb ==
    /\ TALIB_AVAILABLE = FALSE
    /\ strategy = DefaultConfig
    /\ NoAnalysis
    /\ NoScan
    /\ NoBot
    /\ EmptyDb

\* db.save_position(...): the INSERT and its commit, or an exception and the
\* rollback that leaves the table as it was
SavePosition ==
    /\ Len(positions) < MaxPositions
    /\ \E symbol \in {FallbackAssets[1]},
          action \in {"LONG", "SHORT"}, entry_price \in EntryPrices :
          positions' = Append(positions,
              position_row(Len(positions) + 1, symbol, action, entry_price,
                           IF action = "LONG" THEN 10 ELSE -10))
    /\ UNCHANGED <<TALIB_AVAILABLE, bot_vars, strategy, analysis_vars, scan_vars,
                   trade_history, last_close, entry_vars>>

\* db.close_position(position_id, close_price, exit_type)
ClosePosition ==
    /\ Len(trade_history) < MaxTrades
    /\ \E position_id \in 1..(MaxPositions + 1), close_price \in ClosePrices,
          exit_type \in ExitTypes, fails \in BOOLEAN :
          LET call == [position_id |-> position_id, close_price |-> close_price,
                       exit_type |-> exit_type]
          IN  IF fails
              THEN \* except: rollback, return False
                   /\ last_close' = call @@ [returned |-> FALSE, raised |-> TRUE]
                   /\ UNCHANGED <<positions, trade_history>>
              ELSE IF position_id \in DOMAIN positions
              THEN LET position == positions[position_id]
                       profit_loss == profit_loss_of(position.action,
                                         position.entry_price, close_price)
                   IN  /\ trade_history' = Append(trade_history,
                              trade_row(position, close_price, profit_loss, exit_type))
                       /\ positions' = [positions EXCEPT ![position_id] =
                              [@ EXCEPT !.status = "closed",
                                        !.current_price = close_price]]
                       /\ last_close' = call @@ [returned |-> TRUE, raised |-> FALSE]
              ELSE /\ last_close' = call @@ [returned |-> FALSE, raised |-> FALSE]
                   /\ UNCHANGED <<positions, trade_history>>
    /\ UNCHANGED <<TALIB_AVAILABLE, bot_vars, strategy, analysis_vars, scan_vars, entry_vars>>

NextDb == SavePosition \/ ClosePosition

SpecDb == InitDb /\ [][NextDb]_vars

-----------------------------------------------------------------------------
(* Claims about close_position *)

\* the last call closed an existing position
ClosedOne == last_close # NotCalled /\ last_close.returned

LastTrade == trade_history[Len(trade_history)]

\* C10: when close_position closes an existing position, the trade it
\* records has profit_loss = exit_price - entry_price for a LONG position and
\* entry_price - exit_price otherwise; with exit_price > entry_price that is
\* positive for a LONG and negative for a SHORT.
C10_ProfitLossSign ==
    ClosedOne =>
        LET p == positions[last_close.position_id]
            t == LastTrade
        IN  /\ t.exit_price = last_close.close_price
            /\ t.entry_price = p.entry_price
            /\ p.action = "LONG" => t.profit_loss = t.exit_price - p.entry_price
            /\ p.action # "LONG" => t.profit_loss = p.entry_price - t.exit_price
            /\ t.exit_price > p.entry_price =>
                  /\ p.action = "LONG" => t.profit_loss > 0
                  /\ p.action = "SHORT" => t.profit_loss < 0

\* a SHORT position closed above its entry price, after a LONG one was
C10_Witness ==
    /\ ClosedOne
    /\ positions[last_close.position_id].action = "SHORT"
    /\ last_close.close_price > positions[last_close.position_id].entry_price
    /\ LastTrade.profit_loss < 0
    /\ \E i \in 1..(Len(trade_history) - 1) :
          /\ trade_history[i].action = "LONG"
          /\ trade_history[i].profit_loss > 0

\* what a close_position step leaves behind when no statement raised
ClosedAsStated ==
    LET c == last_close'
        id == c.position_id
    IN  IF id \in DOMAIN positions
        THEN /\ c.returned
             /\ positions'[id].status = "closed"
             /\ \A k \in DOMAIN positions : k # id => positions'[k] = positions[k]
             /\ Len(trade_history') = Len(trade_history) + 1
             /\ SubSeq(trade_history', 1, Len(trade_history)) = trade_history
             /\ LET t == trade_history'[Len(trade_history')]
                IN  /\ t.symbol = positions[id].symbol
                    /\ t.market_type = positions[id].market_type
                    /\ t.action = positions[id].action
                    /\ t.entry_price = positions[id].entry_price
                    /\ t.exit_price = c.close_price
                    /\ t.type = c.exit_type
        ELSE /\ ~c.returned
             /\ UNCHANGED <<positions, trade_history>>

-----------------------------------------------------------------------------
(* Claims about the detectors and the partial scores *)

HarmonicKeys == {"gartley", "bat", "butterfly", "crab", "shark"}

\* C12: for a series of at least 50 bars, exactly one of gartley, bat,
\* butterfly, crab and shark is true and the other four are false, in the
\* value of detect_harmonic_patterns and in the pattern_details of analyze.
C12_ExactlyOneHarmonic ==
    Returned =>
        /\ Len(df) >= 50
        /\ Cardinality({k \in HarmonicKeys : result.pattern_details[k]}) = 1
        /\ Cardinality({k \in HarmonicKeys : detect_harmonic_patterns(df)[k]}) = 1
        /\ \A k \in HarmonicKeys :
              result.pattern_details[k] = detect_harmonic_patterns(df)[k]

\* a call whose last 50 closes moved by a fifth or more: shark alone
C12_Witness ==
    /\ Returned
    /\ result.pattern_details["shark"]
    /\ ~result.pattern_details["gartley"] /\ ~result.pattern_details["crab"]

-----------------------------------------------------------------------------
(* The methods of the strategy, called on their own *)

\* series lengths on both sides of the least lengths of the methods
HelperLens ==
    {1, AtrPeriod - 1, AtrPeriod, EmaMinBars - 1, EmaMinBars,
     PatternPeriod * 2 - 1, PatternPeriod * 2, MinBars - 1, MinBars}

\* a series whose first bars have low above high
Inverted ==
    [name |-> "inverted", h0 |-> 100, l0 |-> 110, c0 |-> 105,
     hs |-> 1, ls |-> 0, cs |-> 0, v0 |-> 100]

HelperFrames ==
    {WithMoves(BaseSeries(sh, n), ms) :
        sh \in Shapes \cup {Inverted}, n \in HelperLens,
        ms \in {<<>>} \cup {<<m.name>> : m \in Moves}}

InitHelpers ==
    /\ TALIB_AVAILABLE \in BOOLEAN
    /\ strategy = DefaultConfig
    /\ df \in HelperFrames
    /\ result = NotCalled
    /\ frame = NotCalled
    /\ helper = NotCalled
    /\ NoCalls
    /\ NoScan
    /\ NoBot
    /\ EmptyDb

\* One direct call is made in a run; the methods read df alone.

\* strategy.calculate_atr(df)
CallAtr ==
    /\ helper = NotCalled
    /\ \E a \in AtrOutcomes(df) :
          helper' = [method |-> "calculate_atr",
                     value |-> calculate_atr(df, [NoOracle EXCEPT !.atr = a])]
    /\ UNCHANGED <<TALIB_AVAILABLE, bot_vars, strategy, df, result, frame, call_vars,
                   scan_vars, db_vars>>

\* strategy.analyze_ema_cross(df)
CallEmaCross ==
    /\ helper = NotCalled
    /\ \E e \in EmaOutcomes(df) :
          helper' = [method |-> "analyze_ema_cross",
                     value |-> analyze_ema_cross(df, [NoOracle EXCEPT !.ema = e])]
    /\ UNCHANGED <<TALIB_AVAILABLE, bot_vars, strategy, df, result, frame, call_vars,
                   scan_vars, db_vars>>

\* the residues np.polyfit may leave on the last bars of d: none on an array
\* whose exact slope is not 0, and the same one on equal arrays
FitOutcomes(d) ==
    LET highs == tail(Col(d, "high"), PatternPeriod)
        lows == tail(Col(d, "low"), PatternPeriod)
        closes == tail(Col(d, "close"), PatternPeriod)
        Res(y) == IF SlopeNum(y) = 0 THEN Residues ELSE {0}
    IN  {[NoOracle EXCEPT !.h = o.h, !.l = o.l, !.c = o.c] :
            o \in {x \in [h : Res(highs), l : Res(lows), c : Res(closes)] :
                      /\ highs = lows => x.h = x.l
                      /\ highs = closes => x.h = x.c
                      /\ lows = closes => x.l = x.c}}

\* strategy.detect_triangle_patterns(df)
CallTriangle ==
    /\ helper = NotCalled
    /\ \E o \in FitOutcomes(df) :
          helper' = [method |-> "detect_triangle_patterns",
                     value |-> detect_triangle_patterns(df, o)]
    /\ UNCHANGED <<TALIB_AVAILABLE, bot_vars, strategy, df, result, frame, call_vars,
                   scan_vars, db_vars>>

\* strategy.detect_channel_wedge_patterns(df)
CallChannelWedge ==
    /\ helper = NotCalled
    /\ \E o \in FitOutcomes(df) :
          helper' = [method |-> "detect_channel_wedge_patterns",
                     value |-> detect_channel_wedge_patterns(df, o)]
    /\ UNCHANGED <<TALIB_AVAILABLE, bot_vars, strategy, df, result, frame, call_vars,
                   scan_vars, db_vars>>

\* strategy.detect_harmonic_patterns(df)
CallHarmonic ==
    /\ helper = NotCalled
    /\ helper' = [method |-> "detect_harmonic_patterns",
                  value |-> detect_harmonic_patterns(df)]
    /\ UNCHANGED <<TALIB_AVAILABLE, bot_vars, strategy, df, result, frame, call_vars,
                   scan_vars, db_vars>>

NextHelpers ==
    CallAtr \/ CallEmaCross \/ CallTriangle \/ CallChannelWedge \/ CallHarmonic
        \/ Analyze

SpecHelpers == InitHelpers /\ [][NextHelpers]_vars

-----------------------------------------------------------------------------
(* Claims about the methods *)

LowBelowHigh(d) == \A i \in 1..Len(d) : d[i].low <= d[i].high

\* C13: calculate_atr returns a value >= 0 for every series whose bars have
\* low <= high, and exactly 0 for every series of fewer than 14 bars.
C13_AtrNonNegative ==
    helper # NotCalled /\ helper.method = "calculate_atr" =>
        /\ LowBelowHigh(df) => helper.value >= 0
        /\ Len(df) < 14 => helper.value = 0

\* a call on 13 bars that returned 0 although the bars have a range
C13_Witness ==
    /\ helper # NotCalled /\ helper.method = "calculate_atr"
    /\ Len(df) = 13 /\ helper.value = 0
    /\ LowBelowHigh(df) /\ df[13].high > df[13].low

\* every column of the frame rises from each bar to the next
RisingFrame(d) ==
    /\ StrictlyIncreasing(Col(d, "high"))
    /\ StrictlyIncreasing(Col(d, "low"))
    /\ StrictlyIncreasing(Col(d, "close"))

\* C14: for a series of at least 50 bars whose highs, lows and closes are
\* each strictly increasing, analyze reports HH and HL true, LH and LL
\* false, and a trend_score of at least +2.
C14_RisingSeriesTrend ==
    Returned /\ RisingFrame(df) =>
        /\ result.hh /\ result.hl
        /\ ~result.lh /\ ~result.ll
        /\ frame.trend_score >= 2

\* a call on a strictly rising series of 51 bars, with the built-in averages
C14_Witness ==
    /\ Returned /\ RisingFrame(df) /\ Len(df) = 51
    /\ ~TALIB_AVAILABLE
    /\ result.hh /\ result.ema_trend = "BULLISH" /\ frame.trend_score = 3

-----------------------------------------------------------------------------
(* Entering a position at an actual price (src/app.py, src/botcore.py)      *)
(*                                                                          *)
(* The levels are Python floats.  A float is held here as an integer number *)
(* of price units, and every sum, difference and product is rounded as      *)
(* binary floating point rounds it: to the nearest number with a            *)
(* significand of Precision bits, ties to the even one.  The build has 53   *)
(* bits; the rounding rule is the same.                                     *)

Precision == 6

RECURSIVE Pow2(_)
Pow2(n) == IF n = 0 THEN 1 ELSE 2 * Pow2(n - 1)

\* the spacing of the floats around a number of magnitude x >= 0
RECURSIVE UlpFrom(_, _)
UlpFrom(x, q) == IF x < q * Pow2(Precision) THEN q ELSE UlpFrom(x, 2 * q)

Ulp(x) == UlpFrom(Abs(x), 1)

\* round to nearest, ties to even
RoundNonNeg(x) ==
    LET q == Ulp(x)
        lo == (x \div q) * q
        r == x - lo
    IN  IF 2 * r < q THEN lo
        ELSE IF 2 * r > q THEN lo + q
        ELSE IF (lo \div q) % 2 = 0 THEN lo ELSE lo + q

Round(x) == IF x >= 0 THEN RoundNonNeg(x) ELSE 0 - RoundNonNeg(0 - x)

FloatAdd(a, b) == Round(a + b)

FloatSub(a, b) == Round(a - b)

FloatMul(a, b) == Round(a * b)

\* atr * self.strategy.atr_multiplier * n, evaluated left to right
float_atr_steps(atr, atr_multiplier, n) ==
    IF n = 1 THEN FloatMul(atr, atr_multiplier)
    ELSE FloatMul(FloatMul(atr, atr_multiplier), n)

LevelKeys == {"tp1", "tp2", "tp3", "sl"}

StepOf(k) == IF k = "tp2" THEN 2 ELSE IF k = "tp3" THEN 3 ELSE 1

\* +1 where the level lies above the entry, -1 where it lies below
SideOf(action, k) ==
    IF (action = "LONG") = (k # "sl") THEN 1 ELSE -1

\* strategies.py:299-314 in floats: the levels around ideal_entry
float_levels(action, ideal_entry, atr, atr_multiplier) ==
    [k \in LevelKeys |->
        IF SideOf(action, k) = 1
        THEN FloatAdd(ideal_entry, float_atr_steps(atr, atr_multiplier, StepOf(k)))
        ELSE FloatSub(ideal_entry, float_atr_steps(atr, atr_multiplier, StepOf(k)))]

\* slip: the stop distance added to the entry price
delta_shifted_levels_stop_added(analysis, entry_price) ==
    [k \in LevelKeys |->
        IF k = "sl"
        THEN FloatAdd(entry_price, FloatSub(analysis.ideal_entry, analysis.sl))
        ELSE FloatAdd(entry_price, FloatSub(analysis[k], analysis.ideal_entry))]

\* app.py:186-189
delta_shifted_levels(analysis, entry_price) ==
    [k \in LevelKeys |->
        IF k = "sl"
        THEN FloatSub(entry_price, FloatSub(analysis.ideal_entry, analysis.sl))
        ELSE FloatAdd(entry_price, FloatSub(analysis[k], analysis.ideal_entry))]

\* botcore.py:123-134; every action but LONG takes the else branch
recomputed_levels(analysis, actual_entry, atr_multiplier) ==
    [k \in LevelKeys |->
        LET step == float_atr_steps(analysis.atr, atr_multiplier, StepOf(k))
        IN  IF analysis.action = "LONG"
            THEN IF k = "sl" THEN FloatSub(actual_entry, step)
                 ELSE FloatAdd(actual_entry, step)
            ELSE IF k = "sl" THEN FloatAdd(actual_entry, step)
                 ELSE FloatSub(actual_entry, step)]

\* the whole multipliers of the configuration, as floats
WholeMultiplier == strategy.atr_multiplier \div 10

IdealEntries == {40, 60, 62}

AtrValues == {0, 3, 7}

EntryOffsets == {-20, -2, -1, 0, 1, 2, 40}

EntryConfigs ==
    {DefaultConfig, [atr_multiplier |-> 20, entry_range_pct |-> 50]}

\* an analysis result that passed the scan: LONG or SHORT, with its levels
selected_analysis(action, ideal_entry, atr) ==
    [action |-> action, ideal_entry |-> ideal_entry, atr |-> atr]
        @@ float_levels(action, ideal_entry, atr, WholeMultiplier)

\* botcore.py:122, coin['entry_low'] <= actual_entry <= coin['entry_high']
in_entry_range(analysis, actual_entry) ==
    /\ analysis.ideal_entry * (1000 - strategy.entry_range_pct) <= actual_entry * 1000
    /\ actual_entry * 1000 <= analysis.ideal_entry * (1000 + strategy.entry_range_pct)

InitEntry ==
    /\ TALIB_AVAILABLE = FALSE
    /\ strategy \in EntryConfigs
    /\ NoAnalysis
    /\ NoScan
    /\ NoBot
    /\ positions = <<>>
    /\ trade_history = <<>>
    /\ last_close = NotCalled
    /\ \E action \in {"LONG", "SHORT"}, ideal_entry \in IdealEntries, atr \in AtrValues :
          selected = selected_analysis(action, ideal_entry, atr)
    /\ entry = NotCalled

\* app.py:172-192: any number typed into the entry field is taken
AddPosition ==
    /\ \E off \in EntryOffsets :
          LET entry_price == Round(selected.ideal_entry + off)
          IN  entry' = [site |-> "app", actual_entry |-> entry_price]
                           @@ delta_shifted_levels(selected, entry_price)
    /\ UNCHANGED <<TALIB_AVAILABLE, bot_vars, strategy, analysis_vars, scan_vars,
                   positions, trade_history, last_close, selected>>

\* botcore.py:119-136: a price outside the entry range is asked for again
menu_1_top_5_coins ==
    /\ \E off \in EntryOffsets :
          LET actual_entry == Round(selected.ideal_entry + off)
          IN  /\ in_entry_range(selected, actual_entry)
              /\ entry' = [site |-> "botcore", actual_entry |-> actual_entry]
                              @@ recomputed_levels(selected, actual_entry, WholeMultiplier)
    /\ UNCHANGED <<TALIB_AVAILABLE, bot_vars, strategy, analysis_vars, scan_vars,
                   positions, trade_history, last_close, selected>>

NextEntry == AddPosition \/ menu_1_top_5_coins

SpecEntry == InitEntry /\ [][NextEntry]_vars

\* the levels the other entry path computes for the same analysis and price
OtherPath ==
    IF entry.site = "app"
    THEN recomputed_levels(selected, entry.actual_entry, WholeMultiplier)
    ELSE delta_shifted_levels(selected, entry.actual_entry)

\* the analysis computed level k without rounding error
ExactInAnalysis(k) ==
    selected[k] = selected.ideal_entry
        + SideOf(selected.action, k)
            * float_atr_steps(selected.atr, WholeMultiplier, StepOf(k))

\* three units in the last place of |ideal_entry| + |actual_entry| + |step|
RoundingAllowance(k) ==
    3 * Ulp(Abs(selected.ideal_entry) + Abs(entry.actual_entry)
            + Abs(float_atr_steps(selected.atr, WholeMultiplier, StepOf(k))))

\* C15 as stated: for a LONG or SHORT analysis result and every actual
\* entry price, the delta-shifted levels equal the directly recomputed ones.
C15_LevelsEqual ==
    entry # NotCalled =>
        \A k \in LevelKeys : entry[k] = OtherPath[k]

\* C15, amended: the delta-shifted and the directly recomputed levels are
\* equal wherever the analysis computed the level without rounding error,
\* and otherwise differ by no more than the rounding of the sums involved.
C15_LevelsEqualUpToRounding ==
    entry # NotCalled =>
        \A k \in LevelKeys :
            /\ ExactInAnalysis(k) => entry[k] = OtherPath[k]
            /\ Abs(entry[k] - OtherPath[k]) <= RoundingAllowance(k)

\* a SHORT entered below the ideal entry: the analysis computed the first
\* target exactly and the two paths agree on it; another level was rounded
\* in the analysis and the two paths differ on it
C15_Witness ==
    /\ entry # NotCalled /\ entry.site = "app"
    /\ selected.action = "SHORT"
    /\ entry.actual_entry < selected.ideal_entry
    /\ ExactInAnalysis("tp1") /\ entry.tp1 = OtherPath.tp1
    /\ \E k \in LevelKeys : ~ExactInAnalysis(k) /\ entry[k] # OtherPath[k]

-----------------------------------------------------------------------------
(* Several analyze calls on the one strategy object (core.py:34), as the    *)
(* threads of a parallel scan make them.  A call holds a reference to the   *)
(* frame of its asset and its own local variables; the strategy object and  *)
(* the frames are shared.  It reads the frame when it computes the scores   *)
(* (strategies.py:209-296) and the two attributes of self when it computes  *)
(* the levels (strategies.py:299-314).                                      *)

MaxCalls == 3

Assets == {1, 2}

CallFrames ==
    {BaseSeries(ShapeNamed("up"), BaseLen),
     WithMoves(BaseSeries(ShapeNamed("up"), BaseLen), <<"same">>),
     WithMoves(BaseSeries(ShapeNamed("down"), BaseLen), <<"down">>)}

\* the outcomes of the arithmetic on one frame that the calls are run with
PlatformOracles(d) == {o \in Oracles(d) : o.rsi \in {0, 50, 80, 100}}

\* one outcome per frame: the same input on the same build gives the same floats
Platforms(ss) ==
    UNION {{[a \in Assets |-> IF a = 1 THEN o1 ELSE o2] :
               o2 \in IF ss[2] = ss[1] THEN {o1} ELSE PlatformOracles(ss[2])} :
           o1 \in PlatformOracles(ss[1])}

Idle == [pc |-> "idle"]

\* slip: the multiplier normalised in place on the way through
self_after_analyze_normalised(self) ==
    [self EXCEPT !.atr_multiplier = Abs(@)]

\* strategies.py:207-347 assigns no attribute of self
self_after_analyze(self) == self

\* strategies.py:207-347 assigns no column of df and calls nothing in place
df_after_analyze(d) == d

InitCalls ==
    /\ \/ TALIB_AVAILABLE = FALSE /\ strategy \in Configs
       \/ TALIB_AVAILABLE = TRUE /\ strategy = DefaultConfig
    /\ df = <<>>
    /\ result = NotCalled
    /\ frame = NotCalled
    /\ helper = NotCalled
    /\ series \in [Assets -> CallFrames]
    /\ platform \in Platforms(series)
    /\ calls = [c \in 1..MaxCalls |-> Idle]
    /\ NoScan
    /\ NoBot
    /\ EmptyDb

\* strategy.analyze(df) is called with the frame of one asset
AnalyzeEnter ==
    /\ \E c \in 1..MaxCalls, a \in Assets :
          /\ calls[c].pc = "idle"
          /\ calls' = [calls EXCEPT ![c] = [pc |-> "scores", asset |-> a]]
    /\ UNCHANGED <<TALIB_AVAILABLE, bot_vars, strategy, df, result, frame, helper, series,
                   platform, scan_vars, db_vars>>

\* strategies.py:209-296: None for a short frame, else the scores and the action
AnalyzeScores ==
    /\ \E c \in 1..MaxCalls :
          /\ calls[c].pc = "scores"
          /\ LET a == calls[c].asset
             IN  \E loc \in {IF Len(series[a]) < MinBars THEN None
                            ELSE analyze_locals(series[a], platform[a])} :
                 /\ calls' = [calls EXCEPT ![c] =
                                 IF loc = None
                                 THEN [pc |-> "done", asset |-> a, value |-> None]
                                 ELSE [pc |-> "levels", asset |-> a, locals |-> loc]]
                 /\ series' = [series EXCEPT ![a] = df_after_analyze(@)]
    /\ UNCHANGED <<TALIB_AVAILABLE, bot_vars, strategy, df, result, frame, helper,
                   platform, scan_vars, db_vars>>

\* strategies.py:299-345: the levels from self's attributes, and the dict
AnalyzeReturn ==
    /\ \E c \in 1..MaxCalls :
          /\ calls[c].pc = "levels"
          /\ LET a == calls[c].asset
                 loc == calls[c].locals
             IN  calls' = [calls EXCEPT ![c] =
                     [pc |-> "done", asset |-> a,
                      value |-> result_of([loc EXCEPT !.levels =
                          levels_of(loc.action, loc.current_close, loc.atr)])]]
    /\ strategy' = self_after_analyze(strategy)
    /\ UNCHANGED <<TALIB_AVAILABLE, bot_vars, df, result, frame, helper, series,
                   platform, scan_vars, db_vars>>

NextCalls == AnalyzeEnter \/ AnalyzeScores \/ AnalyzeReturn

SpecCalls == InitCalls /\ [][NextCalls]_vars

Done(c) == calls[c].pc = "done"

\* the calls that have returned for equal series returned equal results
SameSeriesSameResult ==
    \A c, d \in DOMAIN calls :
        Done(c) /\ Done(d) /\ series[calls[c].asset] = series[calls[d].asset]
            => calls[c].value = calls[d].value

-----------------------------------------------------------------------------
(* Claims about the partial scores *)

\* what the four structure flags put into trend_score (strategies.py:245-248)
StructurePart(p) == trend_score_of(p, [ema_trend |-> "NEUTRAL", ema_score |-> 0])

FlagSets == [hh : BOOLEAN, hl : BOOLEAN, lh : BOOLEAN, ll : BOOLEAN]

\* 50-bar series for each value of the structure part
StructureFrames ==
    {WithMoves(BaseSeries(ShapeNamed(sh), BaseLen), <<mv>>) :
        sh \in {"flat", "up", "down", "broaden"}, mv \in {"same", "widen"}}

StructureAsCoded ==
    LET p == [hh |-> result.hh, hl |-> result.hl, lh |-> result.lh, ll |-> result.ll]
    IN  /\ frame.trend_score - result.ema_score = StructurePart(p)
        /\ StructurePart(p) =
               (IF p.hh \/ p.hl THEN 2 ELSE 0) - (IF p.lh \/ p.ll THEN 2 ELSE 0)

\* C17 as stated: the HH/HL/LH/LL part of trend_score is +2 when (HH or
\* HL) and -2 when (LH or LL), both may apply, and each of 0, +2, -2, +4 and
\* -4 is its value for some series.
C17_StructureReachesFour ==
    Returned =>
        /\ StructureAsCoded
        /\ \A v \in {0, 2, -2, 4, -4} : \E p \in FlagSets : StructurePart(p) = v

\* C17, amended: the part is +2 when (HH or HL) and -2 when (LH or LL), both
\* may apply and then cancel, so its value is always one of 0, +2 and -2,
\* and each of these three is its value for some series.
C17_StructureWithinTwo ==
    Returned =>
        /\ StructureAsCoded
        /\ frame.trend_score - result.ema_score \in {0, 2, -2}
        /\ \A p \in FlagSets : StructurePart(p) \in {0, 2, -2}
        /\ \A v \in {0, 2, -2} :
              \E d \in StructureFrames : StructurePart(identify_hh_hl_lh_ll(d)) = v
        /\ \E d \in StructureFrames :
              LET p == identify_hh_hl_lh_ll(d)
              IN  (p.hh \/ p.hl) /\ (p.lh \/ p.ll)

\* a call where a higher high and a lower low both apply and cancel
C17_Witness ==
    /\ Returned
    /\ result.hh /\ result.ll
    /\ frame.trend_score - result.ema_score = 0

EmaCrossCalled == helper # NotCalled /\ helper.method = "analyze_ema_cross"

Bullish == [ema_trend |-> "BULLISH", ema_score |-> 1]

Bearish == [ema_trend |-> "BEARISH", ema_score |-> -1]

\* what the comparison of the two averages of the closes of df settles
EmaVerdict(v) ==
    /\ v \in {Bullish, Bearish}
    /\ ~TALIB_AVAILABLE /\ EmaFastAbove(Col(df, "close")) = "yes" => v = Bullish
    /\ ~TALIB_AVAILABLE /\ EmaFastAbove(Col(df, "close")) = "no" => v = Bearish

\* C18: analyze_ema_cross returns (NEUTRAL, 0) below 22 bars; from 22 bars
\* on it returns BULLISH with +1 exactly when EMA13 > EMA21 on the last bar
\* and BEARISH with -1 otherwise, equal averages included; analyze adds that
\* ema_score to trend_score unchanged under either label.
C18_EmaCrossScore ==
    /\ EmaCrossCalled =>
          IF Len(df) < 22
          THEN helper.value = [ema_trend |-> "NEUTRAL", ema_score |-> 0]
          ELSE EmaVerdict(helper.value)
    /\ Returned =>
          /\ EmaVerdict([ema_trend |-> result.ema_trend, ema_score |-> result.ema_score])
          /\ frame.trend_score =
                 StructurePart([hh |-> result.hh, hl |-> result.hl,
                                lh |-> result.lh, ll |-> result.ll])
                 + result.ema_score

\* a constant series of 50 bars: the two averages are equal, the direct call
\* says BEARISH, -1, and analyze has put that -1 into trend_score
C18_Witness ==
    /\ EmaCrossCalled /\ Returned
    /\ ~TALIB_AVAILABLE /\ IsConstant(Col(df, "close")) /\ Len(df) = 50
    /\ helper.value = Bearish
    /\ result.ema_score = -1 /\ frame.trend_score = -1

\* the RSI of the call is exactly v
RsiIs(v) == result.rsi.n = v * result.rsi.d

\* C19: rsi_score is +1 when 30 < RSI < 70, +2 when RSI < 30 and -2 when
\* RSI > 70; one of the three cases applies to every RSI in 0..100, so
\* rsi_score is never 0.
C19_RsiScoreNeverZero ==
    Returned =>
        /\ 30 * result.rsi.d < result.rsi.n /\ result.rsi.n < 70 * result.rsi.d
              => frame.rsi_score = 1
        /\ result.rsi.n < 30 * result.rsi.d => frame.rsi_score = 2
        /\ result.rsi.n > 70 * result.rsi.d => frame.rsi_score = -2
        /\ frame.rsi_score # 0

\* the built-in RSI of a series with gains 9 and losses 21 is exactly 30,
\* and none of the three tests takes it
C19_Witness ==
    /\ Returned /\ ~TALIB_AVAILABLE
    /\ Len(df) = 50 /\ RsiIs(30)
    /\ frame.rsi_score = 0

\* the closes did not fall on any of the last fourteen bars
ZeroLoss(d) ==
    \A i \in (Len(d) - RsiPeriod + 1)..Len(d) : Diff(Col(d, "close"), i) >= 0

\* the volumes of the last twenty bars are all 0
ZeroVolume(d) == SumSeq(tail(Col(d, "volume"), VolPeriod)) = 0

Finite(q) == q.d # 0

-----------------------------------------------------------------------------
(* Claims about the pattern detectors *)

DetectorCalled(m) == helper # NotCalled /\ helper.method = m

AllFalse(p) == \A k \in DOMAIN p : ~p[k]

ShortForFits(m) ==
    DetectorCalled(m) /\ Len(df) < 40 => AllFalse(helper.value)

\* C21 as stated: each detector returns all of its flags false below
\* 2*period bars: below 40 bars for the triangle and the channel/wedge
\* detector and below 100 bars for the harmonic detector.
C21_AllFalseBelowTwicePeriod ==
    /\ ShortForFits("detect_triangle_patterns")
    /\ ShortForFits("detect_channel_wedge_patterns")
    /\ DetectorCalled("detect_harmonic_patterns") /\ Len(df) < 100
          => AllFalse(helper.value)

\* C21, amended: the triangle and the channel/wedge detector return all
\* flags false below 40 bars (2*period); the harmonic detector returns all
\* flags false below 50 bars (its period), and from 50 bars on it sets one.
C21_AllFalseBelowGuard ==
    /\ ShortForFits("detect_triangle_patterns")
    /\ ShortForFits("detect_channel_wedge_patterns")
    /\ DetectorCalled("detect_harmonic_patterns") =>
          (Len(df) < 50 <=> AllFalse(helper.value))

\* the harmonic detector called on 49 bars
C21_Witness ==
    /\ DetectorCalled("detect_harmonic_patterns")
    /\ Len(df) = 49
    /\ AllFalse(helper.value)

Contains(seq, x) == \E i \in 1..Len(seq) : seq[i] = x

\* the exact slopes of the last highs fall and those of the last lows rise
Converging(d) ==
    /\ SlopeNum(tail(Col(d, "high"), PatternPeriod)) < 0
    /\ SlopeNum(tail(Col(d, "low"), PatternPeriod)) > 0

\* neither exact slope excludes a falling high line over a rising low line
MayConverge(d) ==
    /\ SlopeNum(tail(Col(d, "high"), PatternPeriod)) <= 0
    /\ SlopeNum(tail(Col(d, "low"), PatternPeriod)) >= 0

\* the flags p of the triangle detector on d, as the claim has them
MisspelledKey(p, d) ==
    /\ ~p.broadening_descending
    /\ Converging(d) /\ Len(d) >= 40 =>
          "broadending_descending" \in DOMAIN p
    /\ "broadending_descending" \in DOMAIN p =>
          p.broadending_descending /\ MayConverge(d) /\ Len(d) >= 40

\* C22: in every result of detect_triangle_patterns and of analyze the
\* declared key broadening_descending is false; a falling high slope over a
\* rising low slope is stored under the key broadending_descending, and
\* detected_patterns never holds the name broadening_descending.
C22_DeclaredKeyNeverSet ==
    /\ DetectorCalled("detect_triangle_patterns") => MisspelledKey(helper.value, df)
    /\ Returned =>
          /\ MisspelledKey(result.pattern_details, df)
          /\ ~Contains(result.detected_patterns, "broadening_descending")
          /\ Contains(result.detected_patterns, "broadending_descending")
                <=> "broadending_descending" \in DOMAIN result.pattern_details

\* converging lines over 50 bars: the direct call and analyze both report
\* the detection under the other spelling
C22_Witness ==
    /\ DetectorCalled("detect_triangle_patterns") /\ Returned
    /\ Converging(df) /\ Len(df) = 50
    /\ helper.value.broadending_descending
    /\ Contains(result.detected_patterns, "broadending_descending")
    /\ ~result.pattern_details.broadening_descending

-----------------------------------------------------------------------------
(* Further claims about the scan *)

Actions(rows) == {rows[i].action : i \in 1..Len(rows)}

\* the visited assets whose analysis came out SHORT
ShortAt == {i \in 1..Len(scan_log) :
               scan_log[i].analysis # None /\ scan_log[i].analysis.action = "SHORT"}

\* C23: with min_score >= 1 every signal the scan returns or saves has
\* action LONG; a SHORT analysis has a negative score, fails
\* score >= min_score and is never reported, however negative its score.
C23_PositiveMinScoreReportsLongOnly ==
    /\ \A i \in ShortAt : scan_log[i].analysis.score < 0
    /\ config.min_score >= 1 =>
          /\ Actions(scan_results) \subseteq {"LONG"}
          /\ Actions(signals) \subseteq {"LONG"}
          /\ scan_pc = "done" /\ scan_return # Raised =>
                Actions(scan_return.value) \subseteq {"LONG"}
          /\ \A i \in ShortAt :
                scan_log[i].outcome = "filtered" /\ scan_log[i].asset \notin Reported

\* a finished scan with min_score 3 that returned a LONG and left out a
\* SHORT whose score is -3 or less
C23_Witness ==
    /\ scan_pc = "done" /\ scan_return # Raised
    /\ config.min_score = 3
    /\ Len(scan_return.value) > 0
    /\ \E i \in ShortAt : scan_log[i].analysis.score <= -3

\* the visited assets whose analysis passed the filter
PassedAt == {i \in 1..Len(scan_log) :
                scan_log[i].outcome \in {"reported", "save_error"}}

\* the visited assets that passed the filter and whose save returned
SavedAt == {i \in 1..Len(scan_log) : scan_log[i].outcome = "reported"}

\* the returned list has at most max_signals rows, in non-increasing score
ReturnCutAndSorted ==
    scan_pc = "done" /\ scan_return # Raised =>
        /\ Len(scan_return.value) <= config.max_signals
        /\ \A i, j \in 1..Len(scan_return.value) :
              i < j => scan_return.value[i].score >= scan_return.value[j].score

-----------------------------------------------------------------------------
(* Claims about analyze_asset *)

AssetCalled == asset_call # NotCalled

\* the cases in which the claim lets analyze_asset return None
NoneCases == {"no_provider", "fetch_error", "insufficient", "analyze_error",
              "save_error"}

\* C28: analyze_asset applies no action or min_score filter: a call that
\* fetches a series of at least 50 bars and meets no error saves a signal and
\* returns the analysis, also when its action is NEUTRAL and its level fields
\* are all null or its score is below min_score; it returns None only without
\* a data provider, with missing or short data, or after an error.
C28_AnalyzeAssetUnfiltered ==
    AssetCalled =>
        /\ asset_call.value = None <=> asset_call.outcome \in NoneCases
        /\ asset_call.value # None =>
              /\ asset_call.outcome = "returned"
              /\ asset_call.value.symbol = asset_call.symbol
              /\ asset_call.value.market_type = mode
              /\ signals = <<signal_row(asset_call.value)>>
              /\ asset_call.value.action = "NEUTRAL" =>
                    \A k \in 1..7 : LevelFields(asset_call.value)[k] = Null
        /\ asset_call.outcome \in NoneCases \ {"save_error"} => signals = <<>>

\* a call under min_score 3 that returned a NEUTRAL analysis with null levels
\* and saved it as a signal
C28_Witness ==
    /\ AssetCalled
    /\ config.min_score = 3
    /\ asset_call.value # None
    /\ asset_call.value.action = "NEUTRAL"
    /\ asset_call.value.score < config.min_score
    /\ asset_call.value.tp1 = Null
    /\ Len(signals) = 1 /\ signals[1].action = "NEUTRAL"

-----------------------------------------------------------------------------
(* Claims about the background scheduler *)

Alive == {t \in DOMAIN threads : is_alive(t)}

Registered(job) == {i \in DOMAIN jobs : jobs[i].job = job}

\* C26: after any sequence of set_mode calls at most one scheduler thread is
\* running, the previous one never alongside the new one, and each of
\* update_all_prices and scan_potential_assets is registered at most once.
C26_OneSchedulerJobsOnce ==
    set_mode_pc = "idle" =>
        /\ Cardinality(Alive) <= 1
        /\ Cardinality(Registered("update_all_prices")) <= 1
        /\ Cardinality(Registered("scan_potential_assets")) <= 1

\* after the second set_mode call the first thread still runs beside the
\* second, and both have registered their jobs
C26_Witness ==
    /\ set_mode_pc = "idle"
    /\ Len(threads) = 2
    /\ Alive = {1, 2}
    /\ ~stop_scheduler
    /\ Cardinality(Registered("scan_potential_assets")) = 2

-----------------------------------------------------------------------------
(* Claims about start_monitoring *)

\* thread t has ended an iteration of the for loop in which it got a ticker
Ticked(t) ==
    /\ monitors[t].pc \in {"fetch", "while", "ended"}
    /\ monitors[t].position # NoPosition
    /\ monitors[t].price # 0

\* the branch the last tick of thread t reached
TickBranch(t) ==
    reached(monitored_position(monitors[t].position.action), monitors[t].price)

\* the store closed the position of symbol with exit type x
ClosedInStore(symbol, x) ==
    \E i \in DOMAIN close_calls :
        /\ close_calls[i].symbol = symbol
        /\ close_calls[i].position_id # 0
        /\ close_calls[i].exit_type = x

\* with one monitoring thread: after a tick that reached SL or TP3 the
\* position is out of entry_positions and closed with that exit type; after
\* any other tick it is still monitored, with tp1_hit or tp2_hit set when the
\* tick reached TP1 or TP2
TickDecides ==
    Len(monitors) = 1 /\ Ticked(1) =>
        LET symbol == monitors[1].position.symbol
            branch == TickBranch(1)
        IN  IF branch \in {"SL", "TP3"}
            THEN symbol \notin DOMAIN entry_positions /\ ClosedInStore(symbol, branch)
            ELSE /\ symbol \in DOMAIN entry_positions
                 /\ branch = "TP2" => "tp2_hit" \in entry_positions[symbol].hits
                 /\ branch = "TP1" => "tp1_hit" \in entry_positions[symbol].hits

\* a position leaves entry_positions only by a thread whose tick reached SL
\* or TP3
LeavesOnlyOnExit ==
    \A s \in DOMAIN entry_positions :
        s \notin DOMAIN entry_positions' /\ run_pc' = "menu" =>
            \E t \in DOMAIN monitors :
                /\ monitors[t].pc = "remove"
                /\ monitors[t].position.symbol = s
                /\ TickBranch(t) \in {"SL", "TP3"}

\* C29: in start_monitoring a monitored position leaves entry_positions
\* exactly on a tick whose price reaches its stop-loss or its TP3, the
\* stop-loss tested first, and is then closed in the store with exit type SL
\* or TP3; a tick that only reaches TP1 or TP2 sets tp1_hit or tp2_hit and
\* keeps the position monitored.
C29_LeavesExactlyOnExitTick == [](TickDecides) /\ [][LeavesOnlyOnExit]_vars

\* a LONG position saved with id 1 is still monitored and not closed after a
\* tick at or below its stop-loss
C29_Witness ==
    /\ Len(monitors) = 1 /\ Ticked(1)
    /\ monitors[1].position.action = "LONG"
    /\ monitors[1].price <= monitored_position("LONG").sl
    /\ monitors[1].position.symbol \in DOMAIN entry_positions
    /\ position_ids[monitors[1].position.symbol] = 1
    /\ close_calls = <<>>

\* close_position was invoked at most once for each monitored symbol, so no
\* position has two exit records
ClosedAtMostOnce ==
    \A i, j \in DOMAIN close_calls :
        close_calls[i].symbol = close_calls[j].symbol => i = j

\* the menu action leaves the earlier threads as they are and adds one
StartsOneMoreThread ==
    /\ Len(monitors') = Len(monitors) + 1
    /\ SubSeq(monitors', 1, Len(monitors)) = monitors
    /\ monitors'[Len(monitors')] = entered

-----------------------------------------------------------------------------
(* Claims about repeated closes *)

ClosedIds == {k \in DOMAIN positions : positions[k].status = "closed"}

\* C24: a close_position call on a position whose status is already closed
\* returns false and appends nothing, so no position id gets more than one
\* trade-history record.
C24_ClosedPositionNotClosedAgain ==
    [][ClosePosition /\ last_close'.position_id \in ClosedIds =>
          ~last_close'.returned /\ trade_history' = trade_history]_vars

\* a call on a closed position returned true: the table holds two trades of
\* one position
C24_Witness ==
    /\ last_close # NotCalled /\ last_close.returned
    /\ Len(trade_history) = 2
    /\ ClosedIds = {last_close.position_id}

-----------------------------------------------------------------------------
(* Claims about the triangle flags *)

NoTriangleBySlope(p) == ~p.ascending_triangle /\ ~p.descending_triangle

\* C25: ascending_triangle and descending_triangle are false for every input
\* series, in a direct call and in analyze, so pattern_score never receives
\* the +3 or -3 of a triangle and lies between -1 and +3.
C25_TriangleFlagsNeverSet ==
    /\ DetectorCalled("detect_triangle_patterns") => NoTriangleBySlope(helper.value)
    /\ Returned =>
          /\ NoTriangleBySlope(result.pattern_details)
          /\ result.pattern_score \in -1..3

\* an analysis of rising highs, lows and closes: the support rises, the
\* ascending flag is not set and pattern_score is 3, its largest value
C25_Witness ==
    /\ Returned
    /\ result.pattern_details.uptrend_channel
    /\ ~result.pattern_details.ascending_triangle
    /\ result.pattern_score = 3

=============================================================================
